---------------------------- MODULE Spec2Model ----------------------------
(***************************************************************************)
(* The reinforcement loop of src/Reinforcementloop.ts: the serve handler,  *)
(* getOrCreateSession, runReinforcementLoop, storeSolutionAttempt,         *)
(* logImprovement, determineImprovementStrategy and buildResponse, over    *)
(* the three tables reinforcement_sessions, solution_attempts and          *)
(* improvement_logs; and the functions of the loop and of the evaluator    *)
(* (smart-handler, concatenated in the same file) that compute a value     *)
(* from their arguments alone: determineImprovementStrategy, the rate of   *)
(* executeTests, extractCodeFromMarkdown and extractCleanCode.             *)
(*                                                                         *)
(* Beside the loop: the extraction of the generator's output               *)
(* (extractCodeFromResponse, extractPythonCodeFromText), the polling of    *)
(* the evaluator (submitToJudge0 within executeTests), buildContextPrompt, *)
(* and the streams of src/code-generator.ts (createStreamingResponse,      *)
(* createMultiAgentStreamingResponse, createAutoModeStreamingResponse)     *)
(* with the read loop of generateSolutionWithContext that consumes them;   *)
(* the evaluator's parser of test cases (parseTestCases, smartSplit,       *)
(* parseValue); the code of an attempt as it is stored and as it is        *)
(* executed; the loop over a store whose writes can fail; and an auto-mode *)
(* request together with the reinforcement loop it calls.                  *)
(*                                                                         *)
(* Every statement of the loop filters on session.id, so the rows of one   *)
(* session (id "s1") are modelled; "s2" is an identifier that resolves to  *)
(* no stored session.  Each await of the code is one atomic step of an     *)
(* invocation; the synchronous code that follows an await up to the next   *)
(* one belongs to the same step.                                           *)
(***************************************************************************)
EXTENDS Integers, Sequences, FiniteSets, TLC

\* ---- bounds of the model ----
MaxBudget == 3      \* largest max_attempts a request carries
MaxProcs == 2       \* invocation slots (requests being served at once)
MaxTests == 4       \* longest list of test records a report is computed from
MaxText == 4        \* longest text (in tokens) given to an extraction function

\* ---- inputs ----
Procs == 1..MaxProcs
Scores == {0, 40, 60, 100}            \* success_rate values the evaluator returns
ConcScores == {0, 40, 100}            \* the same under SpecConc
Codes == {"", "code"}                 \* generated_code: nothing extracted, a program
ProblemIds == {0, 1, 2}               \* 0: missing (falsy), 1: stored, 2: not stored
StoredProblems == {1}
SessionIdInputs == {"none", "s1", "s2"}
Budgets == 0..MaxBudget

NoSession == [id |-> "none", problem_id |-> 0, status |-> "none",
              best_success_rate |-> 0, total_attempts |-> 0, max_attempts |-> 0,
              completed_at |-> FALSE]
NoSolution == [code |-> ""]
NoResults == [success_rate |-> 0]
NoCall == [fn |-> "none", args |-> << >>, out |-> << >>]
NoResponse == [kind |-> "none", status |-> "none", current_attempt |-> 0,
               best_success_rate |-> 0, latest_code |-> "",
               latest_success_rate |-> 0, improvement_summary |-> << >>,
               final_success_rate |-> 0, total_attempts |-> 0,
               final_solution |-> << >>]
NoProducer == [mode |-> "none", pc |-> "idle", streamClosed |-> FALSE,
               includeReasoning |-> FALSE, reasoningComplete |-> FALSE,
               analysisResult |-> << >>, planResult |-> << >>, extractedCode |-> << >>]
NoController == [state |-> "none", queue |-> << >>, closes |-> 0]
NoConsumer == [pc |-> "idle", received |-> << >>, reasoningContent |-> << >>,
               codeContent |-> << >>, isComplete |-> FALSE, code |-> << >>]
NoUpstream == [calls |-> << >>, returns |-> << >>, lines |-> << >>, pulls |-> 0,
               requests |-> << >>]
NoEvaluator == [pc |-> "idle", testCases |-> 0, index |-> 0, attempts |-> 0,
                waited |-> 0, result |-> 0, results |-> << >>]

VARIABLES
  reinforcement_sessions,  \* table: set of rows, keyed by id
  solution_attempts,       \* table: sequence of rows in insertion order
  improvement_logs,        \* table: sequence of rows in insertion order
  pc,                      \* position of each invocation
  session,                 \* runReinforcementLoop's session argument (a snapshot)
  currentAttempt,          \* local of runReinforcementLoop
  bestSuccessRate,         \* local of runReinforcementLoop
  generatedSolution,       \* local of the loop body
  testResults,             \* local of the loop body
  response,                \* what the invocation returned
  iterations,              \* history: loop bodies entered by the invocation
  lastReport,              \* history: the latest report of a terminal session
  call,                    \* a function of the program applied on its own
  producer,                \* the generator's stream: the locals of start(controller)
  controller,              \* the generator's stream: its state and its queued chunks
  consumer,                \* the reader of the generator's stream and what it collected
  upstream,                \* history: the calls and reads the generator made of the model
  emitted,                 \* history: the chunks the generator enqueued, in order
  evaluator,               \* executeTests and submitToJudge0 of one evaluation
  faults                   \* history: the writes of the store that failed so far

vars == <<reinforcement_sessions, solution_attempts, improvement_logs, pc, session,
          currentAttempt, bestSuccessRate, generatedSolution, testResults, response,
          iterations, lastReport, call, producer, controller, consumer, upstream,
          emitted, evaluator, faults>>

store == <<reinforcement_sessions, solution_attempts, improvement_logs>>
locals == <<session, currentAttempt, bestSuccessRate, generatedSolution, testResults>>
loop == <<store, locals, pc, response, iterations, lastReport, faults>>
streaming == <<producer, controller, consumer, upstream, emitted>>
aside == <<streaming, evaluator, faults>>
history == <<lastReport, call, aside>>

Terminal(status) == status = "solved" \/ status = "max_attempts_reached"

\* no session stored, no request being served
LoopInit ==
  /\ reinforcement_sessions = {}
  /\ solution_attempts = << >>
  /\ improvement_logs = << >>
  /\ pc = [p \in Procs |-> "idle"]
  /\ session = [p \in Procs |-> NoSession]
  /\ currentAttempt = [p \in Procs |-> 0]
  /\ bestSuccessRate = [p \in Procs |-> 0]
  /\ generatedSolution = [p \in Procs |-> NoSolution]
  /\ testResults = [p \in Procs |-> NoResults]
  /\ response = [p \in Procs |-> NoResponse]
  /\ iterations = [p \in Procs |-> 0]
  /\ lastReport = NoResponse

\* no stream and no evaluation beside the loop
AsideIdle ==
  /\ producer = NoProducer
  /\ controller = NoController
  /\ consumer = NoConsumer
  /\ upstream = NoUpstream
  /\ emitted = << >>
  /\ evaluator = NoEvaluator
  /\ faults = 0

Init == LoopInit /\ call = NoCall /\ AsideIdle

\* ---- store access ----

\* .from('reinforcement_sessions').select('*').eq('id', sessionId)
SessionRows(id) == {r \in reinforcement_sessions : r.id = id}

\* .from('solution_attempts').select('*').eq('session_id', id)
AttemptRows(id) ==
  {solution_attempts[i] : i \in {j \in 1..Len(solution_attempts) :
                                   solution_attempts[j].session_id = id}}

\* ... .order('attempt_number', { ascending: false }).limit(1).single():
\* the rows that may come first; none when the session has no attempt
LatestAttempts(id) ==
  {r \in AttemptRows(id) : \A o \in AttemptRows(id) : o.attempt_number <= r.attempt_number}

\* .from('improvement_logs').select('*').eq('session_id', id).order('created_at'),
\* mapped to changes_made ("improved from old% to new%")
ImprovementSummary(id) ==
  LET idx == {j \in 1..Len(improvement_logs) : improvement_logs[j].session_id = id}
      F[k \in 0..Len(improvement_logs)] ==
        IF k = 0 THEN << >>
        ELSE IF k \in idx
             THEN Append(F[k - 1], <<improvement_logs[k].old, improvement_logs[k].new>>)
             ELSE F[k - 1]
  IN F[Len(improvement_logs)]

\* lines 532-533 in the other order
determineImprovementStrategy_DeltaFirst(improvement, successRate) ==
  IF improvement >= 50 THEN "major_algorithm_fix"
  ELSE IF successRate = 100 THEN "problem_solved"
  ELSE IF improvement >= 20 THEN "significant_bug_fix"
  ELSE IF improvement > 0 THEN "minor_improvement"
  ELSE "no_improvement"

\* lines 531-537
determineImprovementStrategy(improvement, successRate) ==
  IF successRate = 100 THEN "problem_solved"
  ELSE IF improvement >= 50 THEN "major_algorithm_fix"
  ELSE IF improvement >= 20 THEN "significant_bug_fix"
  ELSE IF improvement > 0 THEN "minor_improvement"
  ELSE "no_improvement"

\* the responses buildResponse(supabase, sess) can return
buildResponse(sess, kind) ==
  LET latest == LatestAttempts(sess.id)
      base == [kind |-> kind, status |-> sess.status,
               current_attempt |-> sess.total_attempts,
               best_success_rate |-> sess.best_success_rate,
               latest_code |-> "", latest_success_rate |-> 0,
               improvement_summary |-> ImprovementSummary(sess.id),
               final_success_rate |-> 0, total_attempts |-> 0,
               final_solution |-> << >>]
  IN IF latest = {} THEN {base}
     ELSE {[base EXCEPT !.latest_code = r.generated_code,
                        !.latest_success_rate = r.success_rate] : r \in latest}

\* .update(fields).eq('id', id): the fields replace those of every row with that
\* id, the other columns keep their values
UpdateSessionRows(id, fields) ==
  {IF r.id = id
   THEN [c \in DOMAIN r |-> IF c \in DOMAIN fields THEN fields[c] ELSE r[c]]
   ELSE r : r \in reinforcement_sessions}

\* ---- decisions of the handler and of the loop ----

\* line 63 testing for solved only
ShortCircuits_SolvedOnly(status) == status = "solved"

\* line 63: the handler answers from the store when the session is terminal
ShortCircuits(status) == Terminal(status)

\* line 118 starting every invocation at attempt 1
FirstAttempt_FromOne(sess) == 1

\* line 118
FirstAttempt(sess) == sess.total_attempts + 1

\* line 123 running one attempt too many
LoopContinues_OneMore(attempt, sess) == attempt <= sess.max_attempts + 1

\* line 123: the while condition
LoopContinues(attempt, sess) == attempt <= sess.max_attempts

\* line 139 with !== for >
Improved_NotEqual(successRate, best) == successRate # best

\* line 139 with >= for >
Improved_OrEqual(successRate, best) == successRate >= best

\* line 139
Improved(successRate, best) == successRate > best

\* line 160 testing success_rate > 0 instead of === 100
StatusAfterAttempt_AnyPass(successRate) == IF successRate > 0 THEN "solved" ELSE "in_progress"

\* line 160
StatusAfterAttempt(successRate) == IF successRate = 100 THEN "solved" ELSE "in_progress"

\* line 165 testing for more than 100
BreaksLoop_Above(successRate) == successRate > 100

\* line 165: the attempt solved the problem, the loop is left
BreaksLoop(successRate) == successRate = 100

\* line 146 logging the first attempt as well
LogsImprovement_FromFirst(attempt) == attempt >= 1

\* line 146
LogsImprovement(attempt) == attempt > 1

\* line 188 one attempt late
ReachedMaxAttempts_Beyond(attempt, sess) == attempt > sess.max_attempts + 1

\* line 188 with >= for >
ReachedMaxAttempts_OrEqual(attempt, sess) == attempt >= sess.max_attempts

\* line 188
ReachedMaxAttempts(attempt, sess) == attempt > sess.max_attempts

\* ---- the serve handler ----

\* requests are served by the lowest free slot
FreeSlot(p) == pc[p] = "idle" /\ \A q \in Procs : q < p => pc[q] # "idle"

\* getOrCreateSession, the insert of a new session (lines 99-113)
NewSession(problemId, maxAttempts) ==
  [id |-> "s1", problem_id |-> problemId, status |-> "in_progress",
   best_success_rate |-> 0, total_attempts |-> 0, max_attempts |-> maxAttempts,
   completed_at |-> FALSE]

\* the caught error of the handler (lines 78-84) and the 400 of line 47
ErrorResponse(kind) == [NoResponse EXCEPT !.kind = kind]

\* the locals of a returned invocation are gone
Returned(p) ==
  /\ pc' = [pc EXCEPT ![p] = "done"]
  /\ session' = [session EXCEPT ![p] = NoSession]
  /\ currentAttempt' = [currentAttempt EXCEPT ![p] = 0]
  /\ bestSuccessRate' = [bestSuccessRate EXCEPT ![p] = 0]
  /\ generatedSolution' = [generatedSolution EXCEPT ![p] = NoSolution]
  /\ testResults' = [testResults EXCEPT ![p] = NoResults]
  /\ iterations' = [iterations EXCEPT ![p] = 0]

\* lines 44-52: a request without problem_id is answered 400
RejectRequest(p) ==
  /\ pc[p] = "idle"
  /\ response' = [response EXCEPT ![p] = ErrorResponse("error400")]
  /\ Returned(p)
  /\ UNCHANGED <<store, history>>

\* lines 117-121: the locals of runReinforcementLoop when it is entered
EnterLoop(p, row) ==
  /\ session' = [session EXCEPT ![p] = row]
  /\ pc' = [pc EXCEPT ![p] = IF ShortCircuits(row.status) THEN "shortcircuit" ELSE "loop"]
  /\ currentAttempt' = [currentAttempt EXCEPT ![p] = FirstAttempt(row)]
  /\ bestSuccessRate' = [bestSuccessRate EXCEPT ![p] = row.best_success_rate]

\* line 96 with the budget of the request put in place of the stored one
ResumedSession_RequestBudget(row, maxAttempts) == [row EXCEPT !.max_attempts = maxAttempts]

\* line 96: the stored row is returned as it is, maxAttempts is not looked at
ResumedSession(row, maxAttempts) == row

\* lines 60-71 with getOrCreateSession (87-114): the session is resumed when
\* sessionId resolves to a stored row and created otherwise
Request(p, problemId, maxAttempts, sessionId) ==
  /\ pc[p] = "idle"
  /\ problemId # 0
  /\ LET found == IF sessionId = "none" THEN {} ELSE SessionRows(sessionId)
     IN \/ \E row \in found :
             /\ EnterLoop(p, ResumedSession(row, maxAttempts))
             /\ UNCHANGED reinforcement_sessions
        \/ /\ found = {}
           /\ reinforcement_sessions = {}
           /\ LET row == NewSession(problemId, maxAttempts)
              IN /\ reinforcement_sessions' = reinforcement_sessions \cup {row}
                 /\ EnterLoop(p, row)
  /\ UNCHANGED <<solution_attempts, improvement_logs, generatedSolution, testResults,
                 response, iterations, history>>

\* lines 63-68: the report of a terminal session
ShortCircuit(p) ==
  /\ pc[p] = "shortcircuit"
  /\ \E r \in buildResponse(session[p], "shortcircuit") :
       /\ response' = [response EXCEPT ![p] = r]
       /\ lastReport' = r
  /\ Returned(p)
  /\ UNCHANGED <<store, call, aside>>

\* ---- runReinforcementLoop ----

\* the catch of lines 181-184 without the increment of line 183
CatchAttemptError_SameOrdinal(p) ==
  /\ UNCHANGED currentAttempt
  /\ pc' = [pc EXCEPT ![p] = "loop"]

\* the catch of lines 181-184
CatchAttemptError(p) ==
  /\ currentAttempt' = [currentAttempt EXCEPT ![p] = currentAttempt[p] + 1]
  /\ pc' = [pc EXCEPT ![p] = "loop"]

\* lines 123-129, generateSolutionWithContext answering not ok or failing to read
\* (lines 257-265, 276); a problem that is not stored is answered 404
GenerateThrows(p) ==
  /\ pc[p] = "loop"
  /\ LoopContinues(currentAttempt[p], session[p])
  /\ iterations' = [iterations EXCEPT ![p] = iterations[p] + 1]
  /\ CatchAttemptError(p)
  /\ UNCHANGED <<store, session, bestSuccessRate, generatedSolution, testResults,
                 response, history>>

\* lines 123-129, generateSolutionWithContext returning (lines 319-329): code is
\* "" when no code chunk arrived or nothing was extracted from it
GenerateReturns(p, code) ==
  /\ pc[p] = "loop"
  /\ LoopContinues(currentAttempt[p], session[p])
  /\ session[p].problem_id \in StoredProblems
  /\ iterations' = [iterations EXCEPT ![p] = iterations[p] + 1]
  /\ generatedSolution' = [generatedSolution EXCEPT ![p] = [code |-> code]]
  /\ pc' = [pc EXCEPT ![p] = "test"]
  /\ UNCHANGED <<store, session, currentAttempt, bestSuccessRate, testResults,
                 response, history>>

\* line 132, testGeneratedSolution throwing (lines 427-429): smart-handler answers 400
\* to an empty solution_code (line 604) and may answer 404 or 500
TestThrows(p) ==
  /\ pc[p] = "test"
  /\ CatchAttemptError(p)
  /\ UNCHANGED <<store, session, bestSuccessRate, generatedSolution, testResults,
                 response, iterations, history>>

\* line 132, testGeneratedSolution returning the report of smart-handler
TestReturns(p, successRate) ==
  /\ pc[p] = "test"
  /\ generatedSolution[p].code # ""
  /\ testResults' = [testResults EXCEPT ![p] = [success_rate |-> successRate]]
  /\ pc' = [pc EXCEPT ![p] = "store"]
  /\ UNCHANGED <<store, session, currentAttempt, bestSuccessRate, generatedSolution,
                 response, iterations, history>>

\* storeSolutionAttempt (lines 492-513), the row it inserts
AttemptRow(p) ==
  [session_id |-> session[p].id, attempt_number |-> currentAttempt[p],
   generated_code |-> generatedSolution[p].code,
   success_rate |-> testResults[p].success_rate]

\* lines 134-152 up to the next await: the attempt is inserted, then the score is
\* compared with the running best
StoreAttempt(p) ==
  /\ pc[p] = "store"
  /\ solution_attempts' = Append(solution_attempts, AttemptRow(p))
  /\ IF Improved(testResults[p].success_rate, bestSuccessRate[p])
     THEN /\ bestSuccessRate' = [bestSuccessRate EXCEPT ![p] = testResults[p].success_rate]
          /\ pc' = [pc EXCEPT ![p] = IF LogsImprovement(currentAttempt[p])
                                     THEN "log" ELSE "update"]
     ELSE /\ UNCHANGED bestSuccessRate
          /\ pc' = [pc EXCEPT ![p] = "update"]
  /\ UNCHANGED <<reinforcement_sessions, improvement_logs, session, currentAttempt,
                 generatedSolution, testResults, response, iterations, history>>

\* logImprovement (lines 515-529), the row it inserts
LogRow(sessionId, fromAttempt, toAttempt, newSuccessRate, oldSuccessRate) ==
  [session_id |-> sessionId, from_attempt |-> fromAttempt, to_attempt |-> toAttempt,
   old |-> oldSuccessRate, new |-> newSuccessRate,
   improvement_strategy |->
     determineImprovementStrategy(newSuccessRate - oldSuccessRate, newSuccessRate)]

\* the call of lines 147-148: the old rate passed is session.best_success_rate
logImprovement(p) ==
  /\ pc[p] = "log"
  /\ improvement_logs' =
       Append(improvement_logs,
              LogRow(session[p].id, currentAttempt[p] - 1, currentAttempt[p],
                     testResults[p].success_rate, session[p].best_success_rate))
  /\ pc' = [pc EXCEPT ![p] = "update"]
  /\ UNCHANGED <<reinforcement_sessions, solution_attempts, locals, response,
                 iterations, history>>

\* lines 157-161: the fields of the update
AttemptUpdate(p) ==
  [total_attempts |-> currentAttempt[p],
   best_success_rate |-> bestSuccessRate[p],
   status |-> StatusAfterAttempt(testResults[p].success_rate)]

\* lines 154-162 and the synchronous lines 165, 179
UpdateSession(p) ==
  /\ pc[p] = "update"
  /\ reinforcement_sessions' = UpdateSessionRows(session[p].id, AttemptUpdate(p))
  /\ IF BreaksLoop(testResults[p].success_rate)
     THEN /\ pc' = [pc EXCEPT ![p] = "solved"]
          /\ UNCHANGED currentAttempt
     ELSE /\ pc' = [pc EXCEPT ![p] = "loop"]
          /\ currentAttempt' = [currentAttempt EXCEPT ![p] = currentAttempt[p] + 1]
  /\ UNCHANGED <<solution_attempts, improvement_logs, session, bestSuccessRate,
                 generatedSolution, testResults, response, iterations, history>>

\* lines 168-171 and 193-196: the fields of the closing update
Completed(status) == [status |-> status, completed_at |-> TRUE]

\* lines 165-176: the second update of a solved session, then break
MarkSolved(p) ==
  /\ pc[p] = "solved"
  /\ reinforcement_sessions' = UpdateSessionRows(session[p].id, Completed("solved"))
  /\ pc' = [pc EXCEPT ![p] = "after"]
  /\ UNCHANGED <<solution_attempts, improvement_logs, locals, response, iterations,
                 history>>

\* lines 187-198, reached when line 123 is false or after the break
MarkMaxAttempts(p) ==
  /\ \/ pc[p] = "loop" /\ ~LoopContinues(currentAttempt[p], session[p])
     \/ pc[p] = "after"
  /\ IF ReachedMaxAttempts(currentAttempt[p], session[p])
     THEN reinforcement_sessions' =
            UpdateSessionRows(session[p].id, Completed("max_attempts_reached"))
     ELSE UNCHANGED reinforcement_sessions
  /\ pc' = [pc EXCEPT ![p] = "respond"]
  /\ UNCHANGED <<solution_attempts, improvement_logs, locals, response, iterations,
                 history>>

\* lines 211-227: final_solution is read from the latest stored attempt when the
\* best rate is positive, and is absent otherwise
FinalSolutions(p) ==
  IF bestSuccessRate[p] > 0 /\ LatestAttempts(session[p].id) # {}
  THEN {<<[code |-> a.generated_code, success_rate |-> a.success_rate]>> :
          a \in LatestAttempts(session[p].id)}
  ELSE {<< >>}

\* lines 200-227: the report of an invocation that ran the loop
LoopResponse(p) ==
  LET updatedSession == [session[p] EXCEPT !.total_attempts = currentAttempt[p] - 1,
                                           !.best_success_rate = bestSuccessRate[p]]
  IN {[r EXCEPT !.final_success_rate = bestSuccessRate[p],
                !.total_attempts = currentAttempt[p] - 1,
                !.final_solution = f] :
        r \in buildResponse(updatedSession, "report"), f \in FinalSolutions(p)}

\* lines 200-229
Respond(p) ==
  /\ pc[p] = "respond"
  /\ \E r \in LoopResponse(p) : response' = [response EXCEPT ![p] = r]
  /\ Returned(p)
  /\ UNCHANGED <<store, history>>

\* lines 129 and 132: the runtime ends the invocation while it awaits one of its
\* two long calls, the generator's stream or the evaluation (the request outlives
\* the function's time limit, or the caller goes away); the rows written so far
\* stay, which is what a later request with session_id (line 14) resumes from
Abort(p) ==
  /\ \/ pc[p] = "loop" /\ LoopContinues(currentAttempt[p], session[p])
     \/ pc[p] = "test"
  /\ response' = [response EXCEPT ![p] = ErrorResponse("aborted")]
  /\ Returned(p)
  /\ UNCHANGED <<store, history>>

\* the response has been delivered and the slot serves the next request
Return(p) ==
  /\ pc[p] = "done"
  /\ pc' = [pc EXCEPT ![p] = "idle"]
  /\ response' = [response EXCEPT ![p] = NoResponse]
  /\ UNCHANGED <<store, locals, iterations, history>>

\* ---- specifications ----

AllIdle == \A q \in Procs : pc[q] = "idle"

\* invocations against the session one after the other
Next ==
  \/ \E p \in Procs : AllIdle /\ FreeSlot(p) /\ RejectRequest(p)
  \/ \E p \in Procs, problemId \in ProblemIds, maxAttempts \in Budgets,
        sessionId \in SessionIdInputs :
       AllIdle /\ FreeSlot(p) /\ Request(p, problemId, maxAttempts, sessionId)
  \/ \E p \in Procs : ShortCircuit(p)
  \/ \E p \in Procs : GenerateThrows(p)
  \/ \E p \in Procs, code \in Codes : GenerateReturns(p, code)
  \/ \E p \in Procs : TestThrows(p)
  \/ \E p \in Procs, successRate \in Scores : TestReturns(p, successRate)
  \/ \E p \in Procs : StoreAttempt(p)
  \/ \E p \in Procs : logImprovement(p)
  \/ \E p \in Procs : UpdateSession(p)
  \/ \E p \in Procs : MarkSolved(p)
  \/ \E p \in Procs : MarkMaxAttempts(p)
  \/ \E p \in Procs : Respond(p)
  \/ \E p \in Procs : Abort(p)
  \/ \E p \in Procs : Return(p)

Spec == Init /\ [][Next]_vars

\* MaxProcs invocations against the session served at the same time, each slot
\* serving one request: the handler takes no lock and reads no marker of an
\* attempt in flight (lines 60-71)
NextConc ==
  \/ \E p \in Procs : FreeSlot(p) /\ RejectRequest(p)
  \/ \E p \in Procs, problemId \in ProblemIds, maxAttempts \in Budgets,
        sessionId \in SessionIdInputs :
       FreeSlot(p) /\ Request(p, problemId, maxAttempts, sessionId)
  \/ \E p \in Procs : ShortCircuit(p)
  \/ \E p \in Procs : GenerateThrows(p)
  \/ \E p \in Procs, code \in Codes : GenerateReturns(p, code)
  \/ \E p \in Procs : TestThrows(p)
  \/ \E p \in Procs, successRate \in ConcScores : TestReturns(p, successRate)
  \/ \E p \in Procs : StoreAttempt(p)
  \/ \E p \in Procs : logImprovement(p)
  \/ \E p \in Procs : UpdateSession(p)
  \/ \E p \in Procs : MarkSolved(p)
  \/ \E p \in Procs : MarkMaxAttempts(p)
  \/ \E p \in Procs : Respond(p)

SpecConc == Init /\ [][NextConc]_vars

\* ---- functions applied on their own ----

\* arguments of determineImprovementStrategy: a difference of two rates, a rate
Improvements == -100..100
Rates == 0..100

\* test records (lines 775-783, 803-812), of which the report reads passed
TestRecords == [passed : BOOLEAN]
ResultLists == UNION {[1..n -> TestRecords] : n \in 0..MaxTests}

\* line 818 without the factor 100
SuccessRate_Share(passedTests, totalTests) ==
  IF totalTests > 0 THEN [num |-> passedTests, den |-> totalTests]
  ELSE [num |-> 0, den |-> 1]

\* line 818: passedTests / totalTests * 100 as the fraction num / den (the code
\* computes its floating-point value), 0 when there is no test
SuccessRate(passedTests, totalTests) ==
  IF totalTests > 0 THEN [num |-> passedTests * 100, den |-> totalTests]
  ELSE [num |-> 0, den |-> 1]

\* lines 815-824: the report executeTests returns for the records it collected
executeTests(results) ==
  LET passedTests == Cardinality({i \in 1..Len(results) : results[i].passed})
      totalTests == Len(results)
  IN [success_rate |-> SuccessRate(passedTests, totalTests),
      total_tests |-> totalTests,
      passed_tests |-> passedTests,
      failed_tests |-> totalTests - passedTests,
      test_results |-> results,
      overall_status |-> IF passedTests = totalTests THEN "All Passed"
                         ELSE "Some Failed"]

\* A text is a sequence of tokens, each standing for a piece of text:
\*   "open" ```python     "fence" ```          "nl" a newline    "sp" a blank
\*   "import" from typing import               "class" class Solution:
\*   "h3" ###    "h2" ##    "bold" **    "expl" Explanation
\*   "this" This approach   "the" The (and a blank)
\*   "one" 1.    "two" 2.   "tc" Time Complexity    "sc" Space Complexity
\*   "x" program text that holds none of these
\* The texts given to the functions are drawn over Tokens.
Tokens == {"open", "fence", "nl", "sp", "import", "class", "h3", "this", "x"}
Texts == UNION {[1..n -> Tokens] : n \in 0..MaxText}
Languages == {"python", "javascript"}

\* \s of a regular expression, and what trim() removes
IsSpace(t) == t \in {"sp", "nl"}

\* the token holds ``` (indexOf('```'), includes('```'), the closing ``` of line 933)
HasFence(t) == t \in {"fence", "open"}

\* the token is ```${language} (lines 440, 933, flag i)
OpensBlock(t, language) == t = "open" /\ language = "python"

FirstIndex(S) == IF S = {} THEN 0 ELSE CHOOSE i \in S : \A j \in S : i <= j
LastIndex(S) == IF S = {} THEN 0 ELSE CHOOSE i \in S : \A j \in S : j <= i

\* trim() removing one blank or newline at each end only
Trim_OneEach(text) ==
  LET from == IF Len(text) >= 1 /\ IsSpace(text[1]) THEN 2 ELSE 1
      to == IF Len(text) >= 2 /\ IsSpace(text[Len(text)]) THEN Len(text) - 1
            ELSE Len(text)
  IN SubSeq(text, from, to)

\* String.prototype.trim (lines 444, 481, 489, 936, 965, 993, 1004)
Trim(text) ==
  LET kept == {i \in 1..Len(text) : ~IsSpace(text[i])}
  IN IF kept = {} THEN << >> ELSE SubSeq(text, FirstIndex(kept), LastIndex(kept))

\* leading blanks removed: what startsWith sees of line.trim() (line 986)
TrimStart(text) ==
  LET kept == {i \in 1..Len(text) : ~IsSpace(text[i])}
  IN IF kept = {} THEN << >> ELSE SubSeq(text, FirstIndex(kept), Len(text))

\* text.indexOf(pattern), counted from 1, and 0 for -1
IndexOf(text, pattern) ==
  FirstIndex({i \in 1..(Len(text) - Len(pattern) + 1) :
                SubSeq(text, i, i + Len(pattern) - 1) = pattern})

\* text.indexOf('```')
FenceIndex(text) == FirstIndex({i \in 1..Len(text) : HasFence(text[i])})

\* text.includes(...) for a piece of text that is one token
Includes(text, token) == \E i \in 1..Len(text) : text[i] = token

\* text.split('\n')
RECURSIVE Split(_)
Split(text) ==
  LET k == IndexOf(text, <<"nl">>)
  IN IF k = 0 THEN <<text>>
     ELSE <<SubSeq(text, 1, k - 1)>> \o Split(SubSeq(text, k + 1, Len(text)))

\* lines.join('\n')
RECURSIVE Join(_)
Join(lines) ==
  IF Len(lines) = 0 THEN << >>
  ELSE IF Len(lines) = 1 THEN lines[1]
  ELSE lines[1] \o <<"nl">> \o Join(Tail(lines))

\* ```${language}\s*\n matched at token i: \s* is greedy, so the \n is the last
\* newline of the run of blanks and newlines that follows the tag; 0 when the
\* run holds no newline
LastNewline(text, i) ==
  LastIndex({j \in (i + 1)..Len(text) :
               /\ text[j] = "nl"
               /\ \A k \in (i + 1)..j : IsSpace(text[k])})

\* the positions at which ```${language}\s*\n matches
Openings(text, language) ==
  {i \in 1..Len(text) : OpensBlock(text[i], language) /\ LastNewline(text, i) # 0}

\* lines 440-441 and 933-934: exec of ```${language}\s*\n([\s\S]*?)\n?```; the
\* result is << >> for no match and <<match[1]>> otherwise.  The capture is lazy:
\* it ends before the first ``` after the opening, without its newline if one
\* stands right before that ```
StandardMatch(text, language) ==
  LET closed == {i \in Openings(text, language) :
                   \E j \in (LastNewline(text, i) + 1)..Len(text) : HasFence(text[j])}
      i == FirstIndex(closed)
      b == LastNewline(text, i) + 1
      j == FirstIndex({k \in b..Len(text) : HasFence(text[k])})
      e == IF j - 1 >= b /\ text[j - 1] = "nl" THEN j - 2 ELSE j - 1
  IN IF closed = {} THEN << >> ELSE <<SubSeq(text, b, e)>>

\* lines 451-452 and 942-943: exec of ```${language}\s*\n([\s\S]*)
OpenMatch(text, language) ==
  LET i == FirstIndex(Openings(text, language))
  IN IF i = 0 THEN << >>
     ELSE <<SubSeq(text, LastNewline(text, i) + 1, Len(text))>>

\* lines 465-471: the explanation patterns, in the order of the array
explanationPatterns ==
  << <<"nl", "h3", "sp">>, <<"nl", "h2", "sp">>, <<"nl", "bold", "expl">>,
     <<"nl", "this">>, <<"nl", "one", "sp", "bold">> >>

\* lines 473-479: the text is cut at the first pattern of the array that matches
CutAtExplanation(codeContent) ==
  LET k == FirstIndex({n \in 1..Len(explanationPatterns) :
                         IndexOf(codeContent, explanationPatterns[n]) # 0})
  IN IF k = 0 THEN codeContent
     ELSE SubSeq(codeContent, 1, IndexOf(codeContent, explanationPatterns[k]) - 1)

\* lines 434-490
extractCodeFromMarkdown(code, language) ==
  LET match == StandardMatch(code, language)
      openMatch == OpenMatch(code, language)
  IN IF match # << >> /\ match[1] # << >> THEN Trim(match[1])
     ELSE IF openMatch # << >> /\ openMatch[1] # << >>
     THEN LET closingIndex == FenceIndex(openMatch[1])
              codeContent == IF closingIndex # 0
                             THEN SubSeq(openMatch[1], 1, closingIndex - 1)
                             ELSE openMatch[1]
          IN Trim(CutAtExplanation(codeContent))
     ELSE Trim(code)

\* lines 947-957: the stop patterns other than '```'
stopPatterns ==
  { <<"nl", "h3", "sp">>, <<"nl", "h2", "sp">>, <<"nl", "expl">>, <<"nl", "this">>,
    <<"nl", "one", "sp", "bold">>, <<"nl", "two", "sp", "bold">>,
    <<"nl", "tc">>, <<"nl", "sc">> }

\* lines 958-964: the earliest index at which a stop pattern occurs, the length
\* of the text when none does (counted from 1: the first token that is dropped)
EarliestStop(codeContent) ==
  LET stops == {IndexOf(codeContent, pattern) : pattern \in stopPatterns}
                 \cup {FenceIndex(codeContent)}
      found == stops \ {0}
  IN IF found = {} THEN Len(codeContent) + 1 ELSE FirstIndex(found)

\* line 978: a line that starts the program
StartsProgram(line) == Includes(line, "import") \/ Includes(line, "class")

\* line 987: a line that ends the program; the last test is /^\d+\.\s+\*\*/
EndsProgram(line) ==
  LET t == TrimStart(line)
  IN /\ t # << >>
     /\ \/ t[1] \in {"h3", "expl", "this", "the"}
        \/ /\ t[1] \in {"one", "two"}
           /\ \E k \in 3..Len(t) :
                /\ t[k] = "bold"
                /\ \A n \in 2..(k - 1) : IsSpace(t[n])

\* lines 973-993: << >> when no line starts the program, <<extracted>> otherwise
ClassDetection(code) ==
  LET lines == Split(code)
      startIndex == FirstIndex({i \in 1..Len(lines) : StartsProgram(lines[i])})
      ends == {i \in (startIndex + 1)..Len(lines) : EndsProgram(lines[i])}
      endIndex == IF ends = {} THEN Len(lines) + 1 ELSE FirstIndex(ends)
  IN IF startIndex = 0 THEN << >>
     ELSE <<Trim(Join(SubSeq(lines, startIndex, endIndex - 1)))>>

\* lines 927-1010
extractCleanCode(code, language) ==
  LET standardMatch == StandardMatch(code, language)
      openMatch == OpenMatch(code, language)
      detected == IF language = "python" THEN ClassDetection(code) ELSE << >>
  IN IF standardMatch # << >> /\ standardMatch[1] # << >> THEN Trim(standardMatch[1])
     ELSE IF openMatch # << >> /\ openMatch[1] # << >>
     THEN Trim(SubSeq(openMatch[1], 1, EarliestStop(openMatch[1]) - 1))
     ELSE IF detected # << >> /\ Includes(detected[1], "class") THEN detected[1]
     ELSE IF Includes(code, "class") /\ FenceIndex(code) = 0 THEN Trim(code)
     ELSE code

\* the tokens of a text at the positions of S, in their order
Keep(text, S) ==
  LET F[k \in 0..Len(text)] ==
        IF k = 0 THEN << >>
        ELSE IF k \in S THEN Append(F[k - 1], text[k]) ELSE F[k - 1]
  IN F[Len(text)]

\* lines 353-357: a line that ends the collection; '1.' covers /^\d+\.\s+\*\*/
\* for the digit 1, the pattern stays for the other digits
StopsCollecting(line) ==
  LET t == TrimStart(line)
  IN /\ t # << >>
     /\ \/ t[1] \in {"h3", "expl", "one", "this"}
        \/ /\ t[1] = "two"
           /\ \E k \in 3..Len(t) :
                /\ t[k] = "bold"
                /\ \A n \in 2..(k - 1) : IsSpace(t[n])

\* lines 332-370: the markers ```python\n? and ``` are removed, then the lines
\* from the first one that starts the program to the first one that ends the
\* collection (the starting line is tested too) are joined and trimmed
extractPythonCodeFromText(text) ==
  LET cleaned == Keep(text, {i \in 1..Len(text) :
                               /\ ~HasFence(text[i])
                               /\ ~(text[i] = "nl" /\ i > 1 /\ text[i - 1] = "open")})
      lines == Split(cleaned)
      start == FirstIndex({i \in 1..Len(lines) : StartsProgram(lines[i])})
      stops == {i \in start..Len(lines) : StopsCollecting(lines[i])}
      end == IF stops = {} THEN Len(lines) + 1 ELSE FirstIndex(stops)
  IN IF start = 0 THEN << >>
     ELSE Trim(Join(SubSeq(lines, start, end - 1)))

\* code-generator.ts lines 346-372: the trimmed text between the first
\* ```python and the next ```, the content itself when there is no such pair;
\* the text 'ERROR: No content' (no token of the patterns) for an empty content
extractCodeFromResponse(content) ==
  LET pythonIndex == FirstIndex({i \in 1..Len(content) : content[i] = "open"})
      nextBackticks == FirstIndex({j \in (pythonIndex + 1)..Len(content) :
                                     HasFence(content[j])})
  IN IF content = << >> THEN <<"x">>
     ELSE IF pythonIndex # 0 /\ nextBackticks # 0
     THEN Trim(SubSeq(content, pythonIndex + 1, nextBackticks - 1))
     ELSE content

\* the calls the functions are applied to
ClassifyCalls ==
  {[fn |-> "determineImprovementStrategy", args |-> <<improvement, successRate>>,
    out |-> << >>] : improvement \in Improvements, successRate \in Rates}

ReportCalls ==
  {[fn |-> "executeTests", args |-> <<results>>, out |-> << >>] :
     results \in ResultLists}

ExtractCalls(fn) ==
  {[fn |-> fn, args |-> <<text, language>>, out |-> << >>] :
     text \in Texts, language \in Languages}

\* the text an extraction is applied to: the argument, then its own result
\* (the evaluator extracts again what the loop extracted, lines 415 and 616)
ExtractInput == IF call.out = << >> THEN call.args[1] ELSE call.out[Len(call.out)]

ApplyClassify ==
  /\ call.fn = "determineImprovementStrategy"
  /\ call.out = << >>
  /\ call' = [call EXCEPT
                !.out = <<determineImprovementStrategy(call.args[1], call.args[2])>>]
  /\ UNCHANGED <<loop, aside>>

ApplyExecuteTests ==
  /\ call.fn = "executeTests"
  /\ call.out = << >>
  /\ call' = [call EXCEPT !.out = <<executeTests(call.args[1])>>]
  /\ UNCHANGED <<loop, aside>>

ApplyExtractCodeFromMarkdown ==
  /\ call.fn = "extractCodeFromMarkdown"
  /\ Len(call.out) < 2
  /\ call' = [call EXCEPT
                !.out = Append(call.out,
                               extractCodeFromMarkdown(ExtractInput, call.args[2]))]
  /\ UNCHANGED <<loop, aside>>

ApplyExtractCleanCode ==
  /\ call.fn = "extractCleanCode"
  /\ Len(call.out) < 2
  /\ call' = [call EXCEPT
                !.out = Append(call.out, extractCleanCode(ExtractInput, call.args[2]))]
  /\ UNCHANGED <<loop, aside>>

InitFunctions ==
  /\ LoopInit
  /\ AsideIdle
  /\ \/ call = NoCall
     \/ call \in ClassifyCalls
     \/ call \in ReportCalls
     \/ \E fn \in {"extractCodeFromMarkdown", "extractCleanCode"} : call \in ExtractCalls(fn)

\* the loop runs when no function is applied on its own
LoopRuns == call.fn = "none"

\* the functions applied to their arguments, beside the loop that calls them
NextFunctions ==
  \/ ApplyClassify
  \/ ApplyExecuteTests
  \/ ApplyExtractCodeFromMarkdown
  \/ ApplyExtractCleanCode
  \/ \E p \in Procs : LoopRuns /\ AllIdle /\ FreeSlot(p) /\ RejectRequest(p)
  \/ \E p \in Procs, problemId \in ProblemIds, maxAttempts \in Budgets,
        sessionId \in SessionIdInputs :
       LoopRuns /\ AllIdle /\ FreeSlot(p) /\ Request(p, problemId, maxAttempts, sessionId)
  \/ \E p \in Procs : LoopRuns /\ ShortCircuit(p)
  \/ \E p \in Procs : LoopRuns /\ GenerateThrows(p)
  \/ \E p \in Procs, code \in Codes : LoopRuns /\ GenerateReturns(p, code)
  \/ \E p \in Procs : LoopRuns /\ TestThrows(p)
  \/ \E p \in Procs, successRate \in Scores : LoopRuns /\ TestReturns(p, successRate)
  \/ \E p \in Procs : LoopRuns /\ StoreAttempt(p)
  \/ \E p \in Procs : LoopRuns /\ logImprovement(p)
  \/ \E p \in Procs : LoopRuns /\ UpdateSession(p)
  \/ \E p \in Procs : LoopRuns /\ MarkSolved(p)
  \/ \E p \in Procs : LoopRuns /\ MarkMaxAttempts(p)
  \/ \E p \in Procs : LoopRuns /\ Respond(p)
  \/ \E p \in Procs : LoopRuns /\ Abort(p)
  \/ \E p \in Procs : LoopRuns /\ Return(p)

SpecFunctions == InitFunctions /\ [][NextFunctions]_vars

\* ---- the extraction functions, from the generator to the evaluator ----

\* texts longer than MaxText: the generator output of the spec's scenario (a
\* sentence, a closed python block holding class Solution:, a sentence), and
\* python blocks that are never closed, followed by prose
LongTexts ==
  { <<"x", "nl", "open", "nl", "class", "nl", "fence", "nl", "x">>,
    <<"open", "nl", "x", "nl", "this", "x", "nl", "h3", "sp", "x">>,
    <<"open", "nl", "x", "nl", "tc">>,
    <<"open", "nl", "x", "nl", "expl">> }

ExtractionFunctions ==
  {"extractCodeFromResponse", "extractPythonCodeFromText", "extractCodeFromMarkdown",
   "extractCleanCode"}

\* code-generator.ts line 503: the generator extracts from the Coder's output
ApplyExtractCodeFromResponse ==
  /\ call.fn = "extractCodeFromResponse"
  /\ call.out = << >>
  /\ call' = [call EXCEPT !.out = <<extractCodeFromResponse(call.args[1])>>]
  /\ UNCHANGED <<loop, aside>>

\* line 319: the loop extracts from the collected content of the code chunks,
\* which is what the generator extracted (one code chunk, line 508)
ApplyExtractPythonCodeFromText ==
  /\ \/ call.fn = "extractPythonCodeFromText" /\ call.out = << >>
     \/ call.fn = "extractCodeFromResponse" /\ Len(call.out) = 1
  /\ call' = [call EXCEPT
                !.out = Append(call.out, extractPythonCodeFromText(ExtractInput))]
  /\ UNCHANGED <<loop, aside>>

\* an extraction function is about to be applied to a text, for python
InitExtraction ==
  /\ LoopInit
  /\ AsideIdle
  /\ \E fn \in ExtractionFunctions, text \in Texts \cup LongTexts :
       call = [fn |-> fn, args |-> <<text, "python">>, out |-> << >>]

NextExtraction ==
  \/ ApplyExtractCodeFromResponse
  \/ ApplyExtractPythonCodeFromText
  \/ ApplyExtractCodeFromMarkdown
  \/ ApplyExtractCleanCode

SpecExtraction == InitExtraction /\ [][NextExtraction]_vars

\* ---- the evaluator: executeTests and submitToJudge0 ----

MaxCases == 2              \* most test cases of an evaluation
maxAttempts == 30          \* line 897: the polls of one submission
PollInterval == 1000       \* line 900: milliseconds waited before each poll

\* status.id of a poll's answer: 1 In Queue, 2 Processing, 3 Accepted,
\* 4 Wrong Answer; 0 for an answer without status
StatusIds == {0, 1, 2, 3, 4}

\* line 783: submissionResult.status?.description || 'Unknown'
Description(id) ==
  IF id = 1 THEN "In Queue" ELSE IF id = 2 THEN "Processing"
  ELSE IF id = 3 THEN "Accepted" ELSE IF id = 4 THEN "Wrong Answer" ELSE "Unknown"

\* the polling loop with no bound on the polls
PollsAgain_NoCap(id, attempts) == id # 0 /\ id <= 2

\* line 910: while (result.status?.id <= 2 && attempts < maxAttempts)
PollsAgain(id, attempts) == id # 0 /\ id <= 2 /\ attempts < maxAttempts

\* the record with passed set from the status alone
TestResult_StatusOnly(id, outputEqual) ==
  [passed |-> (id = 3), status |-> Description(id)]

\* lines 776-802: the record of a submission that returned; the outputs are
\* compared only for status 3
TestResult(id, outputEqual) ==
  [passed |-> (id = 3 /\ outputEqual), status |-> Description(id)]

\* lines 803-815: the record of a test case whose execution threw
ErrorResult == [passed |-> FALSE, status |-> "Error"]

\* line 802 or 805: the record is pushed and the next test case is taken; after
\* the last one the report is computed (lines 817-825)
PushResult(record) ==
  evaluator' = [evaluator EXCEPT
                  !.results = Append(@, record),
                  !.index = @ + 1,
                  !.attempts = 0, !.waited = 0, !.result = 0,
                  !.pc = IF evaluator.index = evaluator.testCases THEN "done"
                         ELSE "submit"]

\* lines 872-893: the submission is accepted and the polling starts
SubmitReturns ==
  /\ evaluator.pc = "submit"
  /\ evaluator' = [evaluator EXCEPT !.pc = "poll"]
  /\ UNCHANGED <<loop, call, streaming>>

\* lines 891-893, 922-925: no token, or the request failed
SubmitThrows ==
  /\ evaluator.pc = "submit"
  /\ PushResult(ErrorResult)
  /\ UNCHANGED <<loop, call, streaming>>

\* lines 899-921: one wait and one poll; the loop goes on or the result is
\* returned to executeTests
PollReturns(id, outputEqual) ==
  /\ evaluator.pc = "poll"
  /\ IF PollsAgain(id, evaluator.attempts + 1)
     THEN evaluator' = [evaluator EXCEPT !.attempts = @ + 1,
                                         !.waited = @ + PollInterval,
                                         !.result = id]
     ELSE PushResult(TestResult(id, outputEqual))
  /\ UNCHANGED <<loop, call, streaming>>

\* lines 787-799: the submission is Accepted and its stdout is null (the program
\* printed nothing); stdout.trim() throws in the try and again in its catch, and
\* executeTests catches (lines 803-815)
PollReturnsNoOutput ==
  /\ evaluator.pc = "poll"
  /\ ~PollsAgain(3, evaluator.attempts + 1)
  /\ PushResult(ErrorResult)
  /\ UNCHANGED <<loop, call, streaming>>

\* lines 902-908, 922-925: a poll fails; executeTests catches (lines 803-815)
PollThrows ==
  /\ evaluator.pc = "poll"
  /\ PushResult(ErrorResult)
  /\ UNCHANGED <<loop, call, streaming>>

\* an evaluation of 1 to MaxCases test cases is about to submit the first one
InitEvaluator ==
  /\ LoopInit
  /\ call = NoCall
  /\ producer = NoProducer
  /\ controller = NoController
  /\ consumer = NoConsumer
  /\ upstream = NoUpstream
  /\ emitted = << >>
  /\ faults = 0
  /\ \E n \in 1..MaxCases :
       evaluator = [NoEvaluator EXCEPT !.pc = "submit", !.testCases = n, !.index = 1]

NextEvaluator ==
  \/ SubmitReturns
  \/ SubmitThrows
  \/ \E id \in StatusIds, outputEqual \in BOOLEAN : PollReturns(id, outputEqual)
  \/ PollReturnsNoOutput
  \/ PollThrows

SpecEvaluator == InitEvaluator /\ [][NextEvaluator]_vars

\* ---- buildContextPrompt ----

MaxHistory == 2            \* most previous attempts given to buildContextPrompt

\* a row of solution_attempts as buildContextPrompt reads it
HistoryRows ==
  [attempt_number : 1..MaxHistory, success_rate : {0, 60},
   failed_test_cases : {<< >>, <<"t1">>}, error_messages : {<< >>, <<"e1">>},
   generated_code : Codes]

\* lines 234-238: n rows of the session ordered by attempt_number, ascending;
\* << >> also stands for the null of a query that returned nothing
Histories(n) ==
  {h \in [1..n -> HistoryRows] :
     \A i \in 1..(n - 1) : h[i].attempt_number <= h[i + 1].attempt_number}

\* lines 380-399: the section of one attempt; the failed test cases and the
\* errors are written when the list is not empty
AttemptSection(attempt) ==
  [attempt_number |-> attempt.attempt_number,
   success_rate |-> attempt.success_rate,
   failed_test_cases |-> attempt.failed_test_cases,
   errors |-> attempt.error_messages,
   code |-> attempt.generated_code]

\* the context with the section of the latest attempt only
buildContextPrompt_LatestOnly(previousAttempts, attempt) ==
  IF Len(previousAttempts) = 0
  THEN [first |-> TRUE, attempts |-> 0, sections |-> << >>, strategyFor |-> 0]
  ELSE [first |-> FALSE,
        attempts |-> Len(previousAttempts),
        sections |-> <<AttemptSection(previousAttempts[Len(previousAttempts)])>>,
        strategyFor |-> attempt]

\* lines 372-411: the first-attempt sentence, or the header with the number of
\* attempts, one section per attempt in the order given, and the strategy
\* footer naming the current attempt
buildContextPrompt(previousAttempts, attempt) ==
  IF Len(previousAttempts) = 0
  THEN [first |-> TRUE, attempts |-> 0, sections |-> << >>, strategyFor |-> 0]
  ELSE [first |-> FALSE,
        attempts |-> Len(previousAttempts),
        sections |-> [i \in 1..Len(previousAttempts) |->
                        AttemptSection(previousAttempts[i])],
        strategyFor |-> attempt]

\* line 241
ApplyBuildContextPrompt ==
  /\ call.fn = "buildContextPrompt"
  /\ call.out = << >>
  /\ call' = [call EXCEPT !.out = <<buildContextPrompt(call.args[1], call.args[2])>>]
  /\ UNCHANGED <<loop, aside>>

\* buildContextPrompt is about to be applied to a history
InitContext ==
  /\ LoopInit
  /\ AsideIdle
  /\ \E n \in 0..MaxHistory :
       \E previousAttempts \in Histories(n), attempt \in 1..(MaxHistory + 1) :
         call = [fn |-> "buildContextPrompt", args |-> <<previousAttempts, attempt>>,
                 out |-> << >>]

NextContext == ApplyBuildContextPrompt

SpecContext == InitContext /\ [][NextContext]_vars

\* ---- the generator's stream (code-generator.ts) and its reader ----

MaxLines == 3              \* most lines read of the model's stream in direct mode
MaxMalformed == 1          \* most unparseable lines the reader of the stream meets

\* AGENT_ROLES, in the order of the calls (lines 481, 493, 505, 520)
Roles == <<"ANALYZER", "PLANNER", "CODER", "REVIEWER">>
RoleSet == {Roles[i] : i \in 1..Len(Roles)}

\* what the Coder answers: a closed python block between two sentences, a
\* program without fences, a sentence; what the Reviewer answers: a sentence, a
\* python block of its own
CoderOutputs ==
  { <<"x", "nl", "open", "nl", "class", "nl", "fence", "nl", "x">>, <<"class">>, <<"x">> }
ReviewerOutputs == { <<"review">>, <<"open", "nl", "class", "fence">> }

\* line 805: data.choices[0].message.content of runAgent
AgentOutputs(role) ==
  IF role = "ANALYZER" THEN {<<"analysis">>}
  ELSE IF role = "PLANNER" THEN {<<"plan">>}
  ELSE IF role = "CODER" THEN CoderOutputs
  ELSE ReviewerOutputs

\* one 'data: {type, content}' event of the stream
Chunk(type, content) == [type |-> type, content |-> content]
CompleteChunk == Chunk("complete", << >>)
ErrorChunk == Chunk("error", <<"message">>)
Separator == Chunk("reasoning", <<"separator">>)
Banner(role) == Chunk("reasoning", <<role>>)

\* a data line that JSON.parse rejects
Malformed == Chunk("malformed", << >>)

\* streamClosed, the stream and the chunks enqueued so far, as safeEnqueue and
\* safeClose see and change them
Sink ==
  [streamClosed |-> producer.streamClosed, state |-> controller.state,
   queue |-> controller.queue, closes |-> controller.closes, emitted |-> emitted]

\* lines 93-102 and 450-459: controller.enqueue throws unless the stream is
\* readable, and the catch sets streamClosed
safeEnqueue(s, chunk) ==
  IF s.streamClosed THEN s
  ELSE IF s.state # "readable" THEN [s EXCEPT !.streamClosed = TRUE]
  ELSE [s EXCEPT !.queue = Append(@, chunk), !.emitted = Append(@, chunk)]

\* lines 104-113 and 461-470: controller.close throws unless the stream is
\* readable; streamClosed is set before
safeClose(s) ==
  IF s.streamClosed THEN s
  ELSE IF s.state # "readable" THEN [s EXCEPT !.streamClosed = TRUE]
  ELSE [s EXCEPT !.streamClosed = TRUE, !.state = "closed", !.closes = @ + 1]

RECURSIVE safeEnqueueAll(_, _)
safeEnqueueAll(s, chunks) ==
  IF chunks = << >> THEN s
  ELSE safeEnqueueAll(safeEnqueue(s, Head(chunks)), Tail(chunks))

\* the catch closing the stream without an error chunk
CatchStreamError_Silent(s) == IF s.streamClosed THEN s ELSE safeClose(s)

\* the catch of lines 229-239, 539-549 and 688-698
CatchStreamError(s) ==
  IF s.streamClosed THEN s ELSE safeClose(safeEnqueue(s, ErrorChunk))

\* the stream and the history after the synchronous code of a step
Commit(s) ==
  /\ controller' = [state |-> s.state, queue |-> s.queue, closes |-> s.closes]
  /\ emitted' = s.emitted

\* -- createMultiAgentStreamingResponse --

RoleAfter(role) ==
  IF role = "ANALYZER" THEN "PLANNER"
  ELSE IF role = "PLANNER" THEN "CODER"
  ELSE IF role = "CODER" THEN "REVIEWER"
  ELSE "finished"

\* every agent called without the output of another
PreviousAgentOutput_None(role, prod) == << >>

\* the previousAgentOutput argument of the call of a role (lines 481, 493, 505, 520)
PreviousAgentOutput(role, prod) ==
  IF role = "PLANNER" THEN prod.analysisResult
  ELSE IF role = "CODER" THEN prod.analysisResult \o <<"nl">> \o prod.planResult
  ELSE IF role = "REVIEWER" THEN prod.extractedCode
  ELSE << >>

\* the locals a returned call assigns (lines 481, 493, 505-508, 520)
Remember(prod, role, content) ==
  IF role = "ANALYZER" THEN [prod EXCEPT !.analysisResult = content]
  ELSE IF role = "PLANNER" THEN [prod EXCEPT !.planResult = content]
  ELSE IF role = "CODER" THEN [prod EXCEPT !.extractedCode = extractCodeFromResponse(content)]
  ELSE prod

\* what is enqueued after the call of a role returned, up to the next await
\* (lines 482-491, 494-503, 508-518, 521-535)
ChunksAfter(role, content) ==
  IF role = "ANALYZER"
  THEN <<Chunk("reasoning", content \o <<"nl", "nl">>), Banner("PLANNER")>>
  ELSE IF role = "PLANNER"
  THEN <<Chunk("reasoning", content \o <<"nl", "nl">>), Banner("CODER")>>
  ELSE IF role = "CODER"
  THEN <<Chunk("code", extractCodeFromResponse(content)), Banner("REVIEWER")>>
  ELSE <<Chunk("reasoning", content \o <<"nl", "nl">>), CompleteChunk>>

\* lines 446-481: the stream is constructed, start enqueues the first banner
\* and calls the Analyzer; the response is returned and its body is read
StartMulti ==
  /\ producer.pc = "idle"
  /\ LET s == safeEnqueue([Sink EXCEPT !.state = "readable"], Banner("ANALYZER"))
     IN /\ Commit(s)
        /\ producer' = [producer EXCEPT !.mode = "multi", !.pc = "ANALYZER",
                                        !.streamClosed = s.streamClosed]
  /\ upstream' = [upstream EXCEPT
                    !.calls = Append(@, [role |-> "ANALYZER",
                                         previousAgentOutput |-> << >>]),
                    !.pulls = @ + 1]
  /\ consumer' = [consumer EXCEPT !.pc = "reading"]
  /\ UNCHANGED <<loop, call, evaluator>>

\* lines 481-537: the call of a role returns; its chunks are enqueued and the
\* next role is called, or the stream is completed and closed
AgentReturns(content) ==
  /\ producer.mode = "multi"
  /\ producer.pc \in RoleSet
  /\ content \in AgentOutputs(producer.pc)
  /\ LET role == producer.pc
         prod == Remember(producer, role, content)
         enqueued == safeEnqueueAll(Sink, ChunksAfter(role, content))
         s == IF role = "REVIEWER" THEN safeClose(enqueued) ELSE enqueued
     IN /\ Commit(s)
        /\ producer' = [prod EXCEPT !.pc = RoleAfter(role),
                                    !.streamClosed = s.streamClosed]
        /\ upstream' =
             IF role = "REVIEWER"
             THEN [upstream EXCEPT !.returns = Append(@, content)]
             ELSE [upstream EXCEPT
                     !.returns = Append(@, content),
                     !.calls = Append(@, [role |-> RoleAfter(role),
                                          previousAgentOutput |->
                                            PreviousAgentOutput(RoleAfter(role), prod)]),
                     !.pulls = @ + 1]
  /\ UNCHANGED <<consumer, loop, call, evaluator>>

\* lines 800-802, 539-549: the call of a role fails and start catches
AgentThrows ==
  /\ producer.mode = "multi"
  /\ producer.pc \in RoleSet
  /\ LET s == CatchStreamError(Sink)
     IN /\ Commit(s)
        /\ producer' = [producer EXCEPT !.pc = "failed", !.streamClosed = s.streamClosed]
  /\ UNCHANGED <<consumer, upstream, loop, call, evaluator>>

\* -- createStreamingResponse --

\* the lines of the model's stream: a delta with reasoning_content, a delta with
\* content (a program line, another program line, a prose line), a line that is
\* not a data line, a data line that does not parse, and [DONE]
UpstreamLines ==
  {[kind |-> "delta", reasoning_content |-> <<"think">>, content |-> << >>]}
    \cup {[kind |-> "delta", reasoning_content |-> << >>, content |-> c] :
            c \in {<<"class">>, <<"x">>, <<"this">>}}
    \cup {[kind |-> k, reasoning_content |-> << >>, content |-> << >>] :
            k \in {"other", "malformed", "DONE"}}

\* lines 405-419: '' for a content that starts like prose or names an approach
\* or a solution, the content otherwise
extractCodeFromStreamContent(content) ==
  LET trimmed == Trim(content)
  IN IF \/ trimmed # << >> /\ trimmed[1] \in {"h3", "expl", "this", "the"}
        \/ Includes(trimmed, "this")
     THEN << >>
     ELSE content

\* a parse error that reaches the catch of start
OnParseError_Uncaught(s) == CatchStreamError(s)

\* lines 222-225: the parse error of a line is caught and logged
OnParseError(s) == s

\* lines 190-221: the chunks of a parsed line
DeltaChunks(line, prod) ==
  (IF line.reasoning_content # << >> /\ prod.includeReasoning /\ ~prod.reasoningComplete
   THEN <<Chunk("reasoning", line.reasoning_content)>> ELSE << >>)
  \o (IF line.content # << >> /\ ~prod.reasoningComplete THEN <<Separator>> ELSE << >>)
  \o (IF line.content # << >> /\ extractCodeFromStreamContent(line.content) # << >>
      THEN <<Chunk("code", extractCodeFromStreamContent(line.content))>> ELSE << >>)

\* lines 173-227: one line of the model's stream
ProcessLine(s, line, prod) ==
  IF line.kind = "DONE" THEN safeClose(safeEnqueue(s, CompleteChunk))
  ELSE IF line.kind = "malformed" THEN OnParseError(s)
  ELSE IF line.kind = "delta" THEN safeEnqueueAll(s, DeltaChunks(line, prod))
  ELSE s

\* lines 86-137: the stream is constructed and start requests the completion
StartDirect(includeReasoning) ==
  /\ producer.pc = "idle"
  /\ producer' = [producer EXCEPT !.mode = "direct", !.pc = "fetch",
                                  !.includeReasoning = includeReasoning]
  /\ controller' = [controller EXCEPT !.state = "readable"]
  /\ upstream' = [upstream EXCEPT !.pulls = @ + 1]
  /\ consumer' = [consumer EXCEPT !.pc = "reading"]
  /\ UNCHANGED <<emitted, loop, call, evaluator>>

\* lines 138-150: the request is answered ok and the first read is made
FetchReturns ==
  /\ producer.mode = "direct"
  /\ producer.pc = "fetch"
  /\ producer' = [producer EXCEPT !.pc = "read"]
  /\ upstream' = [upstream EXCEPT !.pulls = @ + 1]
  /\ UNCHANGED <<controller, consumer, emitted, loop, call, evaluator>>

\* lines 138-144, 228-239: the request fails or is answered not ok
FetchFails ==
  /\ producer.mode = "direct"
  /\ producer.pc = "fetch"
  /\ LET s == CatchStreamError(Sink)
     IN /\ Commit(s)
        /\ producer' = [producer EXCEPT !.pc = "failed", !.streamClosed = s.streamClosed]
  /\ UNCHANGED <<consumer, upstream, loop, call, evaluator>>

\* lines 149-227: a read returns one line; the line is processed and, unless
\* the stream was completed or an enqueue failed, the next read is made
ReadReturns(line) ==
  /\ producer.mode = "direct"
  /\ producer.pc = "read"
  /\ Len(upstream.lines) < MaxLines
  /\ LET s == ProcessLine(Sink, line, producer)
         again == line.kind # "DONE" /\ ~s.streamClosed
     IN /\ Commit(s)
        /\ producer' = [producer EXCEPT
                          !.pc = IF again THEN "read" ELSE "finished",
                          !.streamClosed = s.streamClosed,
                          !.reasoningComplete =
                            @ \/ (line.kind = "delta" /\ line.content # << >>)]
        /\ upstream' = [upstream EXCEPT !.lines = Append(@, line),
                                        !.pulls = IF again THEN @ + 1 ELSE @]
  /\ UNCHANGED <<consumer, loop, call, evaluator>>

\* lines 150-164: the model's stream ends
ReadDone ==
  /\ producer.mode = "direct"
  /\ producer.pc = "read"
  /\ LET s == safeClose(safeEnqueue(Sink, CompleteChunk))
     IN /\ Commit(s)
        /\ producer' = [producer EXCEPT !.pc = "finished", !.streamClosed = s.streamClosed]
  /\ UNCHANGED <<consumer, upstream, loop, call, evaluator>>

\* lines 150, 228-239: a read fails
ReadThrows ==
  /\ producer.mode = "direct"
  /\ producer.pc = "read"
  /\ LET s == CatchStreamError(Sink)
     IN /\ Commit(s)
        /\ producer' = [producer EXCEPT !.pc = "failed", !.streamClosed = s.streamClosed]
  /\ UNCHANGED <<consumer, upstream, loop, call, evaluator>>

\* the function that runs start is shut down while it awaits: the stream ends
\* in error without a last chunk
StreamCut ==
  /\ producer.pc \in RoleSet \cup {"fetch", "read", "generate", "test", "improve"}
  /\ controller.state = "readable"
  /\ producer' = [producer EXCEPT !.pc = "killed"]
  /\ controller' = [controller EXCEPT !.state = "errored", !.queue = << >>]
  /\ UNCHANGED <<consumer, upstream, emitted, loop, call, evaluator>>

\* -- createAutoModeStreamingResponse --

\* the code runMultiAgentGeneration returns (lines 724-725): extracted from what
\* the Coder answered, nothing when the Coder answered an empty python block
AutoCodes ==
  {extractCodeFromResponse(content) :
     content \in CoderOutputs \cup {<<"open", "nl", "fence">>}}

\* improvementResult.updates (line 658): the loop pushes an update for every
\* attempt and for every outcome
UpdateLists == { <<"update">>, <<"update", "update">> }

\* improvementResult.final_solution, absent or holding a code (lines 666-671)
FinalSolutions_Auto == { << >>, << <<"class">> >> }

\* a request to another function: the evaluator (lines 735-743), the
\* reinforcement loop (lines 754-763, no session_id, no auto_mode)
FunctionRequest(to, budget) == [to |-> to, max_attempts |-> budget, session_id |-> "none"]

\* line 655: the budget autoImprove is called with
AutoBudget == 3

\* lines 567-600: the stream is constructed, start enqueues the banner and
\* calls runMultiAgentGeneration
StartAuto ==
  /\ producer.pc = "idle"
  /\ LET s == safeEnqueue([Sink EXCEPT !.state = "readable"], Banner("AUTO"))
     IN /\ Commit(s)
        /\ producer' = [producer EXCEPT !.mode = "auto", !.pc = "generate",
                                        !.streamClosed = s.streamClosed]
  /\ upstream' = [upstream EXCEPT !.pulls = @ + 1]
  /\ consumer' = [consumer EXCEPT !.pc = "reading"]
  /\ UNCHANGED <<loop, call, evaluator>>

\* lines 600-619: the generation returned; its code and reasoning are enqueued
\* and the evaluator is called
AutoGenerationReturns(code) ==
  /\ producer.mode = "auto"
  /\ producer.pc = "generate"
  /\ LET s == safeEnqueueAll(Sink, <<Chunk("code", code), Chunk("reasoning", <<"agents">>),
                                     Banner("AUTO-TESTING")>>)
     IN /\ Commit(s)
        /\ producer' = [producer EXCEPT !.pc = "test", !.extractedCode = code,
                                        !.streamClosed = s.streamClosed]
  /\ upstream' = [upstream EXCEPT
                    !.requests = Append(@, FunctionRequest("smart-handler", 0)),
                    !.pulls = @ + 1]
  /\ UNCHANGED <<consumer, loop, call, evaluator>>

\* lines 619-655: the evaluation returned; with a rate of 100 the stream is
\* completed and closed, the reinforcement loop is called otherwise
AutoTestReturns(successRate) ==
  /\ producer.mode = "auto"
  /\ producer.pc = "test"
  /\ producer.extractedCode # << >>
  /\ LET results == Chunk("reasoning", <<"results">>)
         s == IF successRate = 100
              THEN safeClose(safeEnqueueAll(Sink, <<results, Banner("SUCCESS"),
                                                    CompleteChunk>>))
              ELSE safeEnqueueAll(Sink, <<results, Banner("AUTO-IMPROVE")>>)
     IN /\ Commit(s)
        /\ producer' = [producer EXCEPT
                          !.pc = IF successRate = 100 THEN "finished" ELSE "improve",
                          !.streamClosed = s.streamClosed]
  /\ upstream' =
       IF successRate = 100 THEN upstream
       ELSE [upstream EXCEPT
               !.requests = Append(@, FunctionRequest("reinforcement-loop", AutoBudget)),
               !.pulls = @ + 1]
  /\ UNCHANGED <<consumer, loop, call, evaluator>>

\* lines 655-686: the reinforcement loop answered; its updates, its final code
\* if it has one, and the complete chunk are enqueued and the stream is closed
AutoImproveReturns(updates, finalSolution) ==
  /\ producer.mode = "auto"
  /\ producer.pc = "improve"
  /\ LET chunks == [i \in 1..Len(updates) |-> Chunk("reasoning", <<updates[i]>>)]
                     \o [i \in 1..Len(finalSolution) |-> Chunk("code", finalSolution[i])]
                     \o <<CompleteChunk>>
         s == safeClose(safeEnqueueAll(Sink, chunks))
     IN /\ Commit(s)
        /\ producer' = [producer EXCEPT !.pc = "finished", !.streamClosed = s.streamClosed]
  /\ UNCHANGED <<consumer, upstream, loop, call, evaluator>>

\* lines 688-698: runMultiAgentGeneration, autoTestSolution (lines 745-747, a
\* 400 for an empty code) or autoImprove (lines 765-767) throws
AutoStepThrows ==
  /\ producer.mode = "auto"
  /\ producer.pc \in {"generate", "test", "improve"}
  /\ LET s == CatchStreamError(Sink)
     IN /\ Commit(s)
        /\ producer' = [producer EXCEPT !.pc = "failed", !.streamClosed = s.streamClosed]
  /\ UNCHANGED <<consumer, upstream, loop, call, evaluator>>

\* -- generateSolutionWithContext, the read loop --

\* lines 283-309: one line of the generator's stream; a line that does not
\* parse and a chunk of another type change nothing
Collect(cons, chunk) ==
  [cons EXCEPT
     !.received = Append(@, chunk),
     !.reasoningContent = IF chunk.type = "reasoning" THEN @ \o chunk.content ELSE @,
     !.codeContent = IF chunk.type = "code" THEN @ \o chunk.content ELSE @,
     !.isComplete = @ \/ chunk.type = "complete"]

\* lines 313-329: the loop is left and the collected code is extracted
Finish(cons) ==
  [cons EXCEPT !.pc = "returned", !.code = extractPythonCodeFromText(cons.codeContent)]

\* lines 274-311: a read returns the next chunk
ReaderReads ==
  /\ consumer.pc = "reading"
  /\ controller.state \in {"readable", "closed"}
  /\ controller.queue # << >>
  /\ LET cons == Collect(consumer, Head(controller.queue))
     IN consumer' = IF cons.isComplete THEN Finish(cons) ELSE cons
  /\ controller' = [controller EXCEPT !.queue = Tail(@)]
  /\ UNCHANGED <<producer, upstream, emitted, loop, call, evaluator>>

\* lines 293-308: a read returns a data line that does not parse
ReaderReadsMalformed ==
  /\ consumer.pc = "reading"
  /\ controller.state \in {"readable", "closed"}
  /\ Cardinality({i \in 1..Len(consumer.received) :
                    consumer.received[i] = Malformed}) < MaxMalformed
  /\ consumer' = Collect(consumer, Malformed)
  /\ UNCHANGED <<producer, controller, upstream, emitted, loop, call, evaluator>>

\* lines 275-277: the stream was closed and all its chunks were read
ReaderDone ==
  /\ consumer.pc = "reading"
  /\ controller.state = "closed"
  /\ controller.queue = << >>
  /\ consumer' = Finish(consumer)
  /\ UNCHANGED <<producer, controller, upstream, emitted, loop, call, evaluator>>

\* line 275: the read of a stream that ended in error is rejected
ReaderThrows ==
  /\ consumer.pc = "reading"
  /\ controller.state = "errored"
  /\ consumer' = [consumer EXCEPT !.pc = "threw"]
  /\ UNCHANGED <<producer, controller, upstream, emitted, loop, call, evaluator>>

\* the reader goes away (its invocation is shut down, the client disconnects):
\* the stream is cancelled and its queue dropped
ConsumerCancels ==
  /\ consumer.pc = "reading"
  /\ controller.state \in {"readable", "closed"}
  /\ consumer' = [consumer EXCEPT !.pc = "cancelled"]
  /\ controller' = [controller EXCEPT !.state = "cancelled", !.queue = << >>]
  /\ UNCHANGED <<producer, upstream, emitted, loop, call, evaluator>>

InitStream == LoopInit /\ call = NoCall /\ AsideIdle

NextStream ==
  \/ StartMulti
  \/ \E content \in AgentOutputs(producer.pc) : AgentReturns(content)
  \/ AgentThrows
  \/ \E includeReasoning \in BOOLEAN : StartDirect(includeReasoning)
  \/ FetchReturns
  \/ FetchFails
  \/ \E line \in UpstreamLines : ReadReturns(line)
  \/ ReadDone
  \/ ReadThrows
  \/ StartAuto
  \/ \E code \in AutoCodes : AutoGenerationReturns(code)
  \/ \E successRate \in Scores : AutoTestReturns(successRate)
  \/ \E updates \in UpdateLists, finalSolution \in FinalSolutions_Auto :
       AutoImproveReturns(updates, finalSolution)
  \/ AutoStepThrows
  \/ StreamCut
  \/ ReaderReads
  \/ ReaderReadsMalformed
  \/ ReaderDone
  \/ ReaderThrows
  \/ ConsumerCancels

SpecStream == InitStream /\ [][NextStream]_vars

\* ---- an auto-mode request and the reinforcement loop it calls ----

\* the body of a request to the generator; a field the sender leaves out is absent
Field(body, name, default) == IF name \in DOMAIN body THEN body[name] ELSE default

\* lines 28-37 and 67-75 of code-generator.ts: the constructor the handler picks
GeneratorMode(body) ==
  LET stream == Field(body, "stream", TRUE)
      use_multi_agent == Field(body, "use_multi_agent", TRUE)
      auto_mode == Field(body, "auto_mode", FALSE)
  IN IF auto_mode /\ stream THEN "auto"
     ELSE IF use_multi_agent /\ stream THEN "multi"
     ELSE IF stream THEN "direct"
     ELSE "json"

\* the body sent by a loop that asks the generator for auto mode
GeneratorRequest_Auto(problemId, attemptNumber) ==
  [problem_id |-> problemId, language |-> "python", stream |-> TRUE,
   use_multi_agent |-> TRUE, auto_mode |-> TRUE, context |-> "",
   attempt_number |-> attemptNumber]

\* lines 247-254 of Reinforcementloop.ts: the body generateSolutionWithContext sends
GeneratorRequest(problemId, attemptNumber) ==
  [problem_id |-> problemId, language |-> "python", stream |-> TRUE,
   use_multi_agent |-> TRUE, context |-> "", attempt_number |-> attemptNumber]

\* the request of autoImprove reaches the reinforcement loop, which creates the
\* session it runs on
AutoLoopRequest ==
  /\ reinforcement_sessions = {}
  /\ \E i \in 1..Len(upstream.requests) :
       LET request == upstream.requests[i]
       IN /\ request.to = "reinforcement-loop"
          /\ Request(1, 1, request.max_attempts, request.session_id)

\* generateSolutionWithContext (line 129): the generator serves the loop's
\* request with the staged stream
LoopGenerates ==
  /\ GeneratorMode(GeneratorRequest(session[1].problem_id, currentAttempt[1])) = "multi"
  /\ \/ GenerateThrows(1)
     \/ \E code \in Codes : GenerateReturns(1, code)

\* the text of a stored code as a chunk carries it
CodeText(code) == IF code = "" THEN << >> ELSE <<"class">>

\* line 655: the reinforcement loop's report is what autoImprove returns
AutoLoopAnswers ==
  /\ pc[1] = "done"
  /\ response[1].kind = "report"
  /\ \E updates \in UpdateLists :
       AutoImproveReturns(updates,
                          [i \in 1..Len(response[1].final_solution) |->
                             CodeText(response[1].final_solution[i].code)])

NextAuto ==
  \/ StartAuto
  \/ \E code \in AutoCodes : AutoGenerationReturns(code)
  \/ \E successRate \in Scores : AutoTestReturns(successRate)
  \/ AutoStepThrows
  \/ AutoLoopRequest
  \/ LoopGenerates
  \/ TestThrows(1)
  \/ \E successRate \in Scores : TestReturns(1, successRate)
  \/ StoreAttempt(1)
  \/ logImprovement(1)
  \/ UpdateSession(1)
  \/ MarkSolved(1)
  \/ MarkMaxAttempts(1)
  \/ Respond(1)
  \/ Abort(1)
  \/ AutoLoopAnswers

\* every call made returns or fails
SpecAuto == InitStream /\ [][NextAuto]_vars /\ WF_vars(NextAuto)

\* ---- the evaluator's parser of test cases (parseTestCases, smartSplit, parseValue) ----

MaxFields == 2             \* most fields of a tuple of a test-case specification

\* a text is a sequence of characters; "sp" is the blank, "q" the single and
\* "dq" the double quote, "1" a digit, "a" a letter
Quotes == {"q", "dq"}

\* the fields a tuple is made of: a number, a nested sequence, quoted strings
\* holding a comma and a bracket, parentheses, a parenthesis followed by a
\* comma, a blank and a parenthesis, and a quote of the other kind
Fields ==
  { <<"1">>,
    <<"[", "[", "1", "]", ",", "sp", "1", "]">>,
    <<"q", "a", ",", "sp", "[", "a", "q">>,
    <<"q", "(", "a", ")", "q">>,
    <<"q", ")", ",", "sp", "(", "q">>,
    <<"dq", "a", "q", "a", "dq">> }

\* tuples of 1..MaxFields fields
Tuples(n) == [1..n -> Fields]

\* the fields joined by ', '
RECURSIVE JoinFields(_)
JoinFields(fields) ==
  IF Len(fields) = 0 THEN << >>
  ELSE IF Len(fields) = 1 THEN fields[1]
  ELSE fields[1] \o <<",", "sp">> \o JoinFields(Tail(fields))

\* the specification as it is stored in problems.test_cases (line 684):
\* '(f, f), (f, f)'
RECURSIVE Render(_)
Render(tuples) ==
  IF Len(tuples) = 0 THEN << >>
  ELSE <<"(">> \o JoinFields(tuples[1]) \o <<")">>
       \o (IF Len(tuples) = 1 THEN << >> ELSE <<",", "sp">> \o Render(Tail(tuples)))

\* line 688: testCasesString.split('), (')
RECURSIVE SplitCases(_)
SplitCases(text) ==
  LET k == IndexOf(text, <<")", ",", "sp", "(">>)
  IN IF k = 0 THEN <<text>>
     ELSE <<SubSeq(text, 1, k - 1)>> \o SplitCases(SubSeq(text, k + 4, Len(text)))

\* line 692: .replace(/^\(/, '').replace(/\)$/, '')
StripParens(caseStr) ==
  LET a == IF caseStr # << >> /\ caseStr[1] = "(" THEN Tail(caseStr) ELSE caseStr
  IN IF a # << >> /\ a[Len(a)] = ")" THEN SubSeq(a, 1, Len(a) - 1) ELSE a

\* JSON.parse accepts the text of a sequence: its brackets balance and it holds
\* digits, commas, blanks and brackets only
ParsesAsJson(str) ==
  LET depth[k \in 0..Len(str)] ==
        IF k = 0 THEN 0
        ELSE IF str[k] = "[" THEN depth[k - 1] + 1
        ELSE IF str[k] = "]" THEN depth[k - 1] - 1
        ELSE depth[k - 1]
  IN /\ \A k \in 1..Len(str) : str[k] \in {"[", "]", "1", ",", "sp"}
     /\ \A k \in 1..(Len(str) - 1) : depth[k] > 0
     /\ depth[Len(str)] = 0

\* lines 736-755: the value of a field and the branch that made it
parseValue(text) ==
  LET str == Trim(text)
      n == Len(str)
  IN IF n > 0 /\ str[1] = "[" /\ str[n] = "]"
     THEN [kind |-> IF ParsesAsJson(str) THEN "array" ELSE "text", text |-> str]
     ELSE IF n > 0 /\ str[1] \in Quotes /\ str[n] = str[1]
     THEN [kind |-> "string", text |-> SubSeq(str, 2, n - 1)]
     ELSE IF \A k \in 1..n : str[k] = "1"
     THEN [kind |-> "number", text |-> str]
     ELSE [kind |-> "text", text |-> str]

\* line 724: the comma that ends a field
SplitsAt(char, inQuotes, depth) == ~inQuotes /\ char = "," /\ depth = 0

\* lines 703-735
smartSplit(str) ==
  LET start == [parts |-> << >>, current |-> << >>, depth |-> 0, inQuotes |-> FALSE,
                quoteChar |-> ""]
      F[i \in 0..Len(str)] ==
        IF i = 0 THEN start
        ELSE LET s == F[i - 1]
                 char == str[i]
             IN IF ~s.inQuotes /\ char \in Quotes
                THEN [s EXCEPT !.inQuotes = TRUE, !.quoteChar = char,
                               !.current = Append(@, char)]
                ELSE IF s.inQuotes /\ char = s.quoteChar
                THEN [s EXCEPT !.inQuotes = FALSE, !.current = Append(@, char)]
                ELSE IF ~s.inQuotes /\ char = "["
                THEN [s EXCEPT !.depth = @ + 1, !.current = Append(@, char)]
                ELSE IF ~s.inQuotes /\ char = "]"
                THEN [s EXCEPT !.depth = @ - 1, !.current = Append(@, char)]
                ELSE IF SplitsAt(char, s.inQuotes, s.depth)
                THEN [s EXCEPT !.parts = Append(@, parseValue(s.current)),
                               !.current = << >>]
                ELSE [s EXCEPT !.current = Append(@, char)]
      end == F[Len(str)]
  IN IF Trim(end.current) # << >>
     THEN Append(end.parts, parseValue(end.current))
     ELSE end.parts

\* lines 682-702
parseTestCases(testCasesString) ==
  LET cases == SplitCases(testCasesString)
  IN [i \in 1..Len(cases) |-> smartSplit(StripParens(cases[i]))]

\* line 635: parseTestCases applied to a stored specification
ApplyParseTestCases ==
  /\ call.fn = "parseTestCases"
  /\ call.out = << >>
  /\ call' = [call EXCEPT !.out = <<parseTestCases(Render(call.args[1]))>>]
  /\ UNCHANGED <<loop, aside>>

\* parseTestCases is about to be applied to a specification of one or two tuples
InitParse ==
  /\ LoopInit
  /\ AsideIdle
  /\ \E n \in 1..MaxFields, m \in 1..MaxFields :
       \E first \in Tuples(n), second \in Tuples(m), count \in {1, 2} :
         call = [fn |-> "parseTestCases",
                 args |-> << IF count = 1 THEN <<first>> ELSE <<first, second>> >>,
                 out |-> << >>]

NextParse == ApplyParseTestCases

SpecParse == InitParse /\ [][NextParse]_vars

\* ---- the code of an attempt on its way from the generator to the judge ----

\* lines 319-326: the code generateSolutionWithContext returns, which line 135
\* stores as generated_code
ExtractForStorage ==
  /\ call.fn = "attempt"
  /\ call.out = << >>
  /\ call' = [call EXCEPT !.out = <<extractPythonCodeFromText(call.args[1])>>]
  /\ UNCHANGED <<loop, aside>>

\* lines 415-424: testGeneratedSolution extracts again and submits the result
ExtractForSubmission ==
  /\ call.fn = "attempt"
  /\ Len(call.out) = 1
  /\ call' = [call EXCEPT
                !.out = Append(@, extractCodeFromMarkdown(call.out[1], call.args[2]))]
  /\ UNCHANGED <<loop, aside>>

\* lines 603-616 and 640: smart-handler answers 400 to an empty solution_code,
\* extracts once more otherwise and executes the result
ExtractForExecution ==
  /\ call.fn = "attempt"
  /\ Len(call.out) = 2
  /\ call.out[2] # << >>
  /\ call' = [call EXCEPT !.out = Append(@, extractCleanCode(call.out[2], call.args[2]))]
  /\ UNCHANGED <<loop, aside>>

\* programs with a line that starts with 'The ' (a line of a docstring): after
\* the class line, and between the import and the class line
DocstringTexts ==
  { <<"class", "nl", "the", "x", "nl", "x">>,
    <<"import", "nl", "the", "x", "nl", "class">> }

\* the generator's collected code chunks, before the first extraction
InitAttemptCode ==
  /\ LoopInit
  /\ AsideIdle
  /\ \E text \in Texts \cup LongTexts \cup DocstringTexts :
       call = [fn |-> "attempt", args |-> <<text, "python">>, out |-> << >>]

NextAttemptCode ==
  \/ ExtractForStorage
  \/ ExtractForSubmission
  \/ ExtractForExecution

SpecAttemptCode == InitAttemptCode /\ [][NextAttemptCode]_vars

\* ---- the loop over a store whose writes can fail ----

MaxFaults == 2             \* most writes of the store that fail

\* a write fails: nothing else beside the loop changes
WriteFails ==
  /\ faults < MaxFaults
  /\ faults' = faults + 1
  /\ UNCHANGED <<lastReport, call, streaming, evaluator>>

\* storeSolutionAttempt throwing what the insert answered
StoreAttemptFails_Throws(p) ==
  /\ CatchAttemptError(p)
  /\ UNCHANGED bestSuccessRate

\* lines 509-511 and 138-152: the insert answers an error, which is logged; the
\* score is compared with the running best as after an insert that succeeded
StoreAttemptFails_Logged(p) ==
  /\ UNCHANGED currentAttempt
  /\ IF Improved(testResults[p].success_rate, bestSuccessRate[p])
     THEN /\ bestSuccessRate' = [bestSuccessRate EXCEPT ![p] = testResults[p].success_rate]
          /\ pc' = [pc EXCEPT ![p] = IF LogsImprovement(currentAttempt[p])
                                     THEN "log" ELSE "update"]
     ELSE /\ UNCHANGED bestSuccessRate
          /\ pc' = [pc EXCEPT ![p] = "update"]

\* lines 134-152 with an insert that fails: no row is stored
StoreAttemptFails(p) ==
  /\ pc[p] = "store"
  /\ StoreAttemptFails_Logged(p)
  /\ WriteFails
  /\ UNCHANGED <<store, session, generatedSolution, testResults, response, iterations>>

\* lines 154-162, 165, 179 with an update that fails: its answer is not looked
\* at, the stored row keeps its fields and the loop goes on
UpdateSessionFails(p) ==
  /\ pc[p] = "update"
  /\ IF BreaksLoop(testResults[p].success_rate)
     THEN /\ pc' = [pc EXCEPT ![p] = "solved"]
          /\ UNCHANGED currentAttempt
     ELSE /\ pc' = [pc EXCEPT ![p] = "loop"]
          /\ currentAttempt' = [currentAttempt EXCEPT ![p] = currentAttempt[p] + 1]
  /\ WriteFails
  /\ UNCHANGED <<store, session, bestSuccessRate, generatedSolution, testResults,
                 response, iterations>>

\* lines 165-176 with an update that fails
MarkSolvedFails(p) ==
  /\ pc[p] = "solved"
  /\ pc' = [pc EXCEPT ![p] = "after"]
  /\ WriteFails
  /\ UNCHANGED <<store, locals, response, iterations>>

\* lines 187-198 with an update that fails
MarkMaxAttemptsFails(p) ==
  /\ \/ pc[p] = "loop" /\ ~LoopContinues(currentAttempt[p], session[p])
     \/ pc[p] = "after"
  /\ ReachedMaxAttempts(currentAttempt[p], session[p])
  /\ pc' = [pc EXCEPT ![p] = "respond"]
  /\ WriteFails
  /\ UNCHANGED <<store, locals, response, iterations>>

\* invocations one after the other, every write of an attempt or of the
\* session succeeding or failing
NextFaults ==
  \/ Next
  \/ \E p \in Procs : StoreAttemptFails(p)
  \/ \E p \in Procs : UpdateSessionFails(p)
  \/ \E p \in Procs : MarkSolvedFails(p)
  \/ \E p \in Procs : MarkMaxAttemptsFails(p)

SpecFaults == Init /\ [][NextFaults]_vars

\* ---- what the claims speak about ----

Max(a, b) == IF a >= b THEN a ELSE b

InLoop(p) == pc[p] \in {"loop", "test", "store", "log", "update", "solved", "after", "respond"}

\* the stored row of the session an invocation works on
StoredOf(p) == SessionRows(session[p].id)

\* rows of a session that carry ordinal k
RowsWithOrdinal(id, k) ==
  {i \in 1..Len(solution_attempts) :
     /\ solution_attempts[i].session_id = id
     /\ solution_attempts[i].attempt_number = k}

\* the improvement log has an entry that leads to attempt k
HasLogTo(id, k) ==
  \E i \in 1..Len(improvement_logs) :
    /\ improvement_logs[i].session_id = id
    /\ improvement_logs[i].to_attempt = k

\* ---- C1 ----
\* C1: in every step of sequential invocations the stored total_attempts of a
\* session does not decrease, and it never exceeds the session's max_attempts.
C1_AttemptsMonotoneWithinBudget ==
  [][\A n \in reinforcement_sessions' :
       /\ n.total_attempts <= n.max_attempts
       /\ \A r \in reinforcement_sessions :
            r.id = n.id => r.total_attempts <= n.total_attempts]_vars

\* a resumed invocation (the session had consumed attempts) has written a larger count
C1_Witness ==
  \E p \in Procs : \E r \in StoredOf(p) :
    /\ InLoop(p)
    /\ session[p].total_attempts >= 1
    /\ r.total_attempts > session[p].total_attempts

\* ---- C2 ----
\* C2: in every step the stored best_success_rate of a session does not decrease,
\* and the update that follows an evaluated attempt leaves it equal to the larger
\* of the stored best before and the attempt's success_rate.
C2_BestScoreMonotoneMax ==
  [][\A n \in reinforcement_sessions' : \A r \in reinforcement_sessions :
       r.id = n.id =>
         /\ r.best_success_rate <= n.best_success_rate
         /\ \A p \in Procs :
              (pc[p] = "update" /\ pc'[p] # "update" /\ session[p].id = r.id)
                => n.best_success_rate
                     = Max(r.best_success_rate, testResults[p].success_rate)]_vars

\* the best is kept when a later attempt of the session scored lower
C2_Witness ==
  \E r \in reinforcement_sessions :
    \E i, j \in 1..Len(solution_attempts) :
      /\ solution_attempts[i].attempt_number < solution_attempts[j].attempt_number
      /\ solution_attempts[i].success_rate > solution_attempts[j].success_rate
      /\ r.best_success_rate = solution_attempts[i].success_rate
      /\ r.total_attempts = solution_attempts[j].attempt_number

\* ---- C3 ----
\* C3 as stated: when the loop reaches the session update of attempt k (k >= 1), an
\* improvement log entry to attempt k exists exactly if the attempt's success_rate
\* exceeds the stored best of the session before the attempt.
C3_LogIffImprovedEveryOrdinal ==
  \A p \in Procs : \A r \in StoredOf(p) :
    pc[p] = "update" =>
      (HasLogTo(session[p].id, currentAttempt[p])
         <=> testResults[p].success_rate > r.best_success_rate)

\* C3 amended: the same for every attempt k >= 2; attempt 1 writes no entry.
C3_LogIffImprovedAfterFirst ==
  \A p \in Procs : \A r \in StoredOf(p) :
    pc[p] = "update" =>
      (HasLogTo(session[p].id, currentAttempt[p])
         <=> (currentAttempt[p] >= 2
              /\ testResults[p].success_rate > r.best_success_rate))

\* both cases: an improving attempt that was logged after one that did not improve
C3_Witness ==
  \E p \in Procs :
    /\ pc[p] = "update"
    /\ currentAttempt[p] >= 3
    /\ HasLogTo(session[p].id, currentAttempt[p])
    /\ ~HasLogTo(session[p].id, currentAttempt[p] - 1)
    /\ RowsWithOrdinal(session[p].id, currentAttempt[p] - 1) # {}

\* ---- C4 ----
\* C4: no step changes a stored status that is solved or max_attempts_reached, and
\* every change of a stored status leads from in_progress to one of these two.
C4_TerminalStatusIsFinal ==
  [][\A n \in reinforcement_sessions' : \A r \in reinforcement_sessions :
       (r.id = n.id /\ r.status # n.status)
         => (r.status = "in_progress" /\ Terminal(n.status))]_vars

\* a later invocation has been served on a session that was already terminal
C4_Witness ==
  /\ lastReport.kind = "shortcircuit"
  /\ \E r \in reinforcement_sessions : r.status = "max_attempts_reached"

\* ---- C5 ----
\* C5: a request that finds the stored session terminal goes to the report without
\* entering the loop; from the request to the return no table changes; and the
\* report equals the report of the previous such request.
C5_TerminalRunIsNoOp ==
  [][\A p \in Procs :
       /\ (pc[p] = "idle" /\ pc'[p] \notin {"idle", "done"}
           /\ \E r \in reinforcement_sessions : Terminal(r.status))
            => pc'[p] = "shortcircuit"
       /\ (pc[p] = "shortcircuit" \/ pc'[p] = "shortcircuit")
            => /\ store' = store
               /\ pc'[p] \in {"shortcircuit", "done"}
               /\ iterations'[p] = 0
       /\ (pc[p] = "shortcircuit" /\ pc'[p] = "done" /\ lastReport.kind = "shortcircuit")
            => response'[p] = lastReport]_vars

\* the call is being repeated on a terminal session that holds attempts
C5_Witness ==
  \E p \in Procs :
    /\ pc[p] = "shortcircuit"
    /\ lastReport.kind = "shortcircuit"
    /\ AttemptRows(session[p].id) # {}

\* ---- C6 ----
\* C6: an invocation that entered the loop on a session with max_attempts B and
\* total_attempts c has entered at most B - c loop bodies, whatever throws; and
\* once it is past the loop, and when it has returned its report, the stored
\* status is solved or max_attempts_reached.
C6_LoopBoundedEndsTerminal ==
  /\ \A p \in Procs :
       InLoop(p) =>
         /\ iterations[p] <= session[p].max_attempts - session[p].total_attempts
         /\ pc[p] = "respond" => \A r \in StoredOf(p) : Terminal(r.status)
  /\ \A p \in Procs :
       response[p].kind = "report" =>
         \A r \in reinforcement_sessions : Terminal(r.status)

\* a resumed session (c >= 1) that used all of its B - c iterations, one of them thrown
C6_Witness ==
  \E p \in Procs :
    /\ pc[p] = "respond"
    /\ session[p].total_attempts >= 1
    /\ iterations[p] = session[p].max_attempts - session[p].total_attempts
    /\ iterations[p] >= 2
    /\ \E k \in 1..session[p].max_attempts :
         k > session[p].total_attempts /\ RowsWithOrdinal(session[p].id, k) = {}

C8_MaxReachedMeansBudgetConsumed ==
  \A r \in reinforcement_sessions :
    r.status = "max_attempts_reached" =>
      /\ r.total_attempts = r.max_attempts
      /\ \A a \in AttemptRows(r.id) : a.success_rate # 100

\* ---- C9 ----
\* C9 as stated: when an invocation has returned its report, the stored attempts of
\* the session carry exactly the ordinals 1..total_attempts, each once, and every
\* ordinal up to max_attempts that the loop went through has a row.
C9_OrdinalsAreOneToConsumed ==
  \A p \in Procs :
    response[p].kind = "report" =>
      \A r \in reinforcement_sessions :
        \A k \in 1..(MaxBudget + 1) :
          Cardinality(RowsWithOrdinal(r.id, k))
            = IF k <= r.total_attempts THEN 1 ELSE 0

\* ---- C10 ----
\* C10 as stated, in what it concludes for the store: no two stored attempts of a
\* session carry the same ordinal, however invocations against the session overlap.
C10_NoDuplicateOrdinal ==
  \A r \in reinforcement_sessions :
    \A k \in 1..(MaxBudget + 1) : Cardinality(RowsWithOrdinal(r.id, k)) <= 1

\* ---- C11 ----
\* an invocation awaits the generator (line 129) or the evaluation (line 132)
Awaiting(p) ==
  \/ pc[p] = "loop" /\ LoopContinues(currentAttempt[p], session[p])
  \/ pc[p] = "test"

\* C11: when the call an invocation awaits in attempt k neither returns a result
\* nor is cut off by the runtime, the error stays inside the loop: the invocation
\* is back at the loop head with ordinal k + 1, it has returned nothing, and no
\* stored row, the session's status included, has changed.
C11_ThrownAttemptIsSpent ==
  [][\A p \in Procs :
       (/\ Awaiting(p)
        /\ pc'[p] # pc[p] \/ iterations'[p] # iterations[p]
        /\ ~(pc[p] = "loop" /\ pc'[p] = "test")
        /\ ~(pc[p] = "test" /\ pc'[p] = "store")
        /\ pc'[p] # "done")
         => /\ pc'[p] = "loop"
            /\ currentAttempt'[p] = currentAttempt[p] + 1
            /\ response'[p] = response[p]
            /\ response'[p].kind = "none"
            /\ store' = store
            /\ session'[p] = session[p]
            /\ bestSuccessRate'[p] = bestSuccessRate[p]]_vars

\* attempt k threw (it has no row) and attempt k + 1 has been generated and evaluated
C11_Witness ==
  \E p \in Procs :
    /\ pc[p] = "store"
    /\ currentAttempt[p] = session[p].total_attempts + 2
    /\ currentAttempt[p] = iterations[p] + session[p].total_attempts
    /\ RowsWithOrdinal(session[p].id, currentAttempt[p] - 1) = {}

\* ---- C12 ----
\* C12: once an attempt of an invocation has been evaluated to 100, the invocation
\* is never again at the loop head or awaiting an evaluation (it only stores, logs,
\* updates and reports), and from the end of the loop on the stored status is
\* solved with a completion time.
C12_PerfectAttemptStopsSolved ==
  \A p \in Procs :
    testResults[p].success_rate = 100 =>
      /\ pc[p] \in {"store", "log", "update", "solved", "after", "respond"}
      /\ pc[p] \in {"after", "respond"} =>
           \A r \in StoredOf(p) : r.status = "solved" /\ r.completed_at

\* solved with budget left: the next ordinal exists and is not attempted
C12_Witness ==
  \E p \in Procs :
    /\ pc[p] = "respond"
    /\ testResults[p].success_rate = 100
    /\ currentAttempt[p] < session[p].max_attempts
    /\ currentAttempt[p] >= 2

\* ---- C13 ----
\* the largest success_rate among stored attempts, 0 when there is none
MaxScore(rows) ==
  IF rows = {} THEN 0
  ELSE CHOOSE m \in {a.success_rate : a \in rows} :
         \A a \in rows : a.success_rate <= m

\* C13: when an invocation is past the loop and no stored attempt of the session
\* scored 100, the stored status is max_attempts_reached with a completion time
\* and the stored best_success_rate is the largest stored success_rate.
C13_ExhaustedMarksMaxAttempts ==
  \A p \in Procs : \A r \in StoredOf(p) :
    (pc[p] = "respond" /\ \A a \in AttemptRows(r.id) : a.success_rate # 100)
      => /\ r.status = "max_attempts_reached"
         /\ r.completed_at
         /\ r.best_success_rate = MaxScore(AttemptRows(r.id))

\* budget 2, both attempts scored 60
C13_Witness ==
  \E p \in Procs : \E r \in StoredOf(p) :
    /\ pc[p] = "respond"
    /\ r.max_attempts = 2
    /\ r.status = "max_attempts_reached"
    /\ r.best_success_rate = 60
    /\ \A k \in 1..2 : \E i \in RowsWithOrdinal(r.id, k) :
         solution_attempts[i].success_rate = 60

\* ---- C14 ----
\* C14 as stated: the status of a report returned after the loop equals the stored
\* status of the session.
C14_ReportStatusIsFinalStatus ==
  \A p \in Procs :
    response[p].kind = "report" =>
      \A r \in reinforcement_sessions : response[p].status = r.status

\* ---- C15 ----
\* C15 as stated: in a report returned after the loop, current_attempt and
\* total_attempts equal the ordinal of the last attempt run: the stored
\* total_attempts when the session is solved, max_attempts when the budget is
\* exhausted.
C15_ReportCountsLastOrdinal ==
  \A p \in Procs :
    response[p].kind = "report" =>
      \A r \in reinforcement_sessions :
        LET last == IF r.status = "solved" THEN r.total_attempts ELSE r.max_attempts
        IN /\ response[p].current_attempt = last
           /\ response[p].total_attempts = last

\* ---- C16 ----
\* C16 as stated: in every report, after the loop or of a terminal session, the
\* success_rate of the returned solution equals the report's best_success_rate.
C16_ReportedSolutionIsBest ==
  \A p \in Procs :
    response[p].kind \in {"report", "shortcircuit"} =>
      /\ response[p].latest_success_rate = response[p].best_success_rate
      /\ \A i \in 1..Len(response[p].final_solution) :
           response[p].final_solution[i].success_rate = response[p].best_success_rate

\* ---- C17 ----
\* the ordinals and scores of a session's stored attempts in insertion order
AttemptScores(id) ==
  LET F[k \in 0..Len(solution_attempts)] ==
        IF k = 0 THEN << >>
        ELSE IF solution_attempts[k].session_id = id
             THEN Append(F[k - 1], <<solution_attempts[k].attempt_number,
                                     solution_attempts[k].success_rate>>)
             ELSE F[k - 1]
  IN F[Len(solution_attempts)]

\* the improvement log entries of a session in insertion order
LogsOf(id) ==
  LET F[k \in 0..Len(improvement_logs)] ==
        IF k = 0 THEN << >>
        ELSE IF improvement_logs[k].session_id = id
             THEN Append(F[k - 1], improvement_logs[k])
             ELSE F[k - 1]
  IN F[Len(improvement_logs)]

\* one run on a new session with budget 3 has stored attempts 1, 2, 3 scoring 40, 40, 100
Scenario404100(p) ==
  /\ session[p].total_attempts = 0
  /\ session[p].max_attempts = 3
  /\ AttemptScores(session[p].id) = << <<1, 40>>, <<2, 40>>, <<3, 100>> >>

\* C17: in that run, before attempt 3 is stored the session has no improvement log
\* entry, and once the logging of attempt 3 is done it has exactly one, from
\* attempt 2 to attempt 3, tagged problem_solved.
C17_ScenarioOneLogEntry ==
  \A p \in Procs :
    /\ (/\ session[p].total_attempts = 0
        /\ session[p].max_attempts = 3
        /\ AttemptScores(session[p].id) = << <<1, 40>>, <<2, 40>> >>)
         => LogsOf(session[p].id) = << >>
    /\ (Scenario404100(p) /\ pc[p] # "log")
         => /\ Len(LogsOf(session[p].id)) = 1
            /\ LogsOf(session[p].id)[1].from_attempt = 2
            /\ LogsOf(session[p].id)[1].to_attempt = 3
            /\ LogsOf(session[p].id)[1].improvement_strategy = "problem_solved"

C17_Witness ==
  \E p \in Procs : Scenario404100(p) /\ pc[p] = "respond"

\* ---- C18 ----
\* the thresholds in the order the classification is specified
ClassifiedAs(delta, newScore) ==
  IF newScore = 100 THEN "problem_solved"
  ELSE IF delta >= 50 THEN "major_algorithm_fix"
  ELSE IF delta >= 20 THEN "significant_bug_fix"
  ELSE IF delta > 0 THEN "minor_improvement"
  ELSE "no_improvement"

\* C18: determineImprovementStrategy applied to any difference and rate returns
\* the tag of the ordered thresholds, and so does every stored improvement log
\* entry for the rates it records; in the loop, whatever tag is logged, the step
\* after the logging is the session update with nothing but improvement_logs
\* changed, and the status written and the position taken after the update are
\* decided by the attempt's success_rate alone.
C18_ClassifyThresholdsNoControl ==
  /\ [](/\ (call.fn = "determineImprovementStrategy" /\ call.out # << >>)
             => call.out[1] = ClassifiedAs(call.args[1], call.args[2])
        /\ \A i \in 1..Len(improvement_logs) :
             improvement_logs[i].improvement_strategy
               = ClassifiedAs(improvement_logs[i].new - improvement_logs[i].old,
                              improvement_logs[i].new))
  /\ [][\A p \in Procs :
          /\ (pc[p] = "log" /\ pc'[p] # "log")
               => /\ pc'[p] = "update"
                  /\ UNCHANGED <<reinforcement_sessions, solution_attempts, locals,
                                 response>>
          /\ (pc[p] = "update" /\ pc'[p] # "update")
               => /\ pc'[p] = IF testResults[p].success_rate = 100
                              THEN "solved" ELSE "loop"
                  /\ \A r \in reinforcement_sessions' :
                       r.id = session[p].id =>
                         r.status = IF testResults[p].success_rate = 100
                                    THEN "solved" ELSE "in_progress"]_vars

\* a difference on a threshold, with a rate below 100
C18_Witness ==
  /\ call.fn = "determineImprovementStrategy"
  /\ call.args = <<20, 60>>
  /\ call.out = <<"significant_bug_fix">>

\* ---- C19 ----
\* the Test Records of a report with passed = true
PassedRecords(report) ==
  {i \in 1..Len(report.test_results) : report.test_results[i].passed}

\* C19: in the report computed from a list of test records, success_rate is
\* passed / total * 100 when the list is not empty, it is 100 exactly when every
\* record of a non-empty list has passed = true, and it is 0 for the empty list.
C19_SuccessRateOfReport ==
  (call.fn = "executeTests" /\ call.out # << >>) =>
    LET report == call.out[1]
        rate == report.success_rate
        total == Len(call.args[1])
        passed == Cardinality(PassedRecords(report))
    IN /\ report.test_results = call.args[1]
       /\ rate.den > 0
       /\ total > 0 => rate.num * total = passed * 100 * rate.den
       /\ total > 0 => ((rate.num = 100 * rate.den)
                          <=> \A i \in 1..total : report.test_results[i].passed)
       /\ total = 0 => rate.num = 0

\* two of three records passed: a rate that is neither 0 nor 100
C19_Witness ==
  /\ call.fn = "executeTests"
  /\ call.out # << >>
  /\ Len(call.args[1]) = 3
  /\ call.out[1].passed_tests = 2
  /\ call.out[1].success_rate = [num |-> 200, den |-> 3]

\* ---- C20 ----
\* a text without fence markers
CleanCode(text) == \A i \in 1..Len(text) : ~HasFence(text[i])

\* C20: for either extraction function and either language, extracting again
\* what was extracted from a text without fence markers returns it unchanged.
C20_ExtractIdempotentOnCleanCode ==
  (/\ call.fn \in {"extractCodeFromMarkdown", "extractCleanCode"}
   /\ Len(call.out) = 2
   /\ CleanCode(call.args[1]))
    => call.out[2] = call.out[1]

\* a python program found by class detection, cut at a prose line, extracted twice
C20_Witness ==
  /\ call.fn = "extractCleanCode"
  /\ Len(call.out) = 2
  /\ call.args[2] = "python"
  /\ CleanCode(call.args[1])
  /\ Includes(call.args[1], "this")
  /\ Includes(call.out[1], "class")
  /\ call.out[1] # call.args[1]

\* ---- C21 ----
\* the first ```python followed by the end of its line and, later, by ```
FirstClosedBlock(text) ==
  FirstIndex({i \in 1..Len(text) :
                /\ text[i] = "open"
                /\ LastNewline(text, i) # 0
                /\ \E j \in (LastNewline(text, i) + 1)..Len(text) : HasFence(text[j])})

\* what stands between the line of that ```python and the next ```, trimmed
BlockInterior(text) ==
  LET b == IndexOf(SubSeq(text, FirstClosedBlock(text) + 1, Len(text)), <<"nl">>)
             + FirstClosedBlock(text) + 1
      j == FirstIndex({k \in b..Len(text) : HasFence(text[k])})
  IN Trim(SubSeq(text, b, j - 1))

\* C21: for a text that holds a closed fenced block tagged python, extractCleanCode
\* and extractPythonCodeFromText return exactly the trimmed interior of the first
\* such block, without the prose before and after it.
C21_ClosedBlockInterior ==
  (/\ call.fn \in {"extractCleanCode", "extractPythonCodeFromText"}
   /\ Len(call.out) >= 1
   /\ FirstClosedBlock(call.args[1]) # 0)
    => call.out[1] = BlockInterior(call.args[1])

\* the same for extractCleanCode alone
ClosedBlockInteriorOfCleanCode ==
  (/\ call.fn = "extractCleanCode"
   /\ Len(call.out) >= 1
   /\ FirstClosedBlock(call.args[1]) # 0)
    => call.out[1] = BlockInterior(call.args[1])

\* ---- C22 ----
\* C22: when the generator's output held no recognizable code, the attempt is
\* not skipped: its evaluation returns a report and the attempt goes on to be
\* stored as an evaluated attempt.
C22_UnrecognizedOutputIsEvaluated ==
  [][\A p \in Procs :
       (/\ pc[p] = "test"
        /\ generatedSolution[p].code = ""
        /\ pc'[p] \notin {"test", "done"})
         => pc'[p] = "store"]_vars

\* ---- C24 ----
\* C24: a request whose problem_id is missing or identifies no stored problem
\* creates no session: every stored session is the session of a stored problem.
C24_NoSessionForUnknownProblem ==
  \A r \in reinforcement_sessions : r.problem_id \in StoredProblems

\* ---- C30 ----
\* the text opens a python block (the first ```python ends its line), no ```
\* follows, and what follows the line of the opening is not blank
NeverClosed(text) ==
  LET i == FirstIndex({k \in 1..Len(text) : text[k] = "open"})
  IN /\ i # 0
     /\ LastNewline(text, i) # 0
     /\ \A j \in (i + 1)..Len(text) : ~HasFence(text[j])
     /\ \E j \in (i + 1)..Len(text) : ~IsSpace(text[j])

\* what follows the line of the opening, up to the earliest heading, explanation
\* keyword, numbered-list marker or complexity header, trimmed
UpToEarliestMarker(text) ==
  LET i == FirstIndex({k \in 1..Len(text) : text[k] = "open"})
      body == SubSeq(text, LastNewline(text, i) + 1, Len(text))
      found == {IndexOf(body, pattern) : pattern \in stopPatterns} \ {0}
  IN Trim(SubSeq(body, 1, IF found = {} THEN Len(body) ELSE FirstIndex(found) - 1))

\* C30: for a text whose python block is never closed, extractCleanCode and
\* extractCodeFromMarkdown return the trimmed text from after the opening up to
\* the marker that occurs first in the text.
C30_UnclosedCutAtEarliestMarker ==
  (/\ call.fn \in {"extractCleanCode", "extractCodeFromMarkdown"}
   /\ call.args[2] = "python"
   /\ Len(call.out) >= 1
   /\ NeverClosed(call.args[1]))
    => call.out[1] = UpToEarliestMarker(call.args[1])

\* the same for extractCleanCode alone
UnclosedCutOfCleanCode ==
  (/\ call.fn = "extractCleanCode"
   /\ call.args[2] = "python"
   /\ Len(call.out) >= 1
   /\ NeverClosed(call.args[1]))
    => call.out[1] = UpToEarliestMarker(call.args[1])

\* ---- C27 ----
\* C27: a submission is polled after a wait of PollInterval each time and at
\* most maxAttempts times; the poll that reaches the cap ends the polling
\* whatever it answers, and a submission still queued or processing then gives
\* a record that is not passed, after which the evaluation goes on.
C27_PollingStopsAtCap ==
  /\ [](/\ evaluator.attempts < maxAttempts
        /\ evaluator.waited = evaluator.attempts * PollInterval
        /\ \A i \in 1..Len(evaluator.results) :
             evaluator.results[i].status \in {"In Queue", "Processing"}
               => ~evaluator.results[i].passed)
  /\ [][(/\ evaluator.pc = "poll"
         /\ evaluator.attempts = maxAttempts - 1
         /\ evaluator' # evaluator)
          => /\ Len(evaluator'.results) = Len(evaluator.results) + 1
             /\ evaluator'.pc \in {"submit", "done"}]_vars

\* the first of two test cases was still processing at the cap and the second
\* one is being submitted
C27_Witness ==
  /\ evaluator.pc = "submit"
  /\ evaluator.index = 2
  /\ evaluator.results[1] = [passed |-> FALSE, status |-> "Processing"]

\* ---- C28 ----
\* C28: the context built from a history is the first-attempt instruction
\* exactly when the history is empty; otherwise it has one section per attempt,
\* in the order of the history (ascending ordinals), each with the ordinal, the
\* score, the failed tests, the errors and the code of its attempt.
C28_OneSectionPerAttempt ==
  (call.fn = "buildContextPrompt" /\ call.out # << >>) =>
    LET previousAttempts == call.args[1]
        context == call.out[1]
    IN /\ context.first <=> previousAttempts = << >>
       /\ Len(context.sections) = Len(previousAttempts)
       /\ \A i \in 1..Len(previousAttempts) :
            /\ context.sections[i].attempt_number = previousAttempts[i].attempt_number
            /\ context.sections[i].success_rate = previousAttempts[i].success_rate
            /\ context.sections[i].failed_test_cases = previousAttempts[i].failed_test_cases
            /\ context.sections[i].errors = previousAttempts[i].error_messages
            /\ context.sections[i].code = previousAttempts[i].generated_code
       /\ \A i \in 1..(Len(context.sections) - 1) :
            context.sections[i].attempt_number <= context.sections[i + 1].attempt_number

\* the context of attempt 3 built from the attempts 1 and 2, the first with a
\* failed test and the second with an error
C28_Witness ==
  /\ call.fn = "buildContextPrompt"
  /\ call.out # << >>
  /\ call.args[2] = 3
  /\ Len(call.out[1].sections) = 2
  /\ call.out[1].sections[1].attempt_number = 1
  /\ call.out[1].sections[1].failed_test_cases # << >>
  /\ call.out[1].sections[2].attempt_number = 2
  /\ call.out[1].sections[2].errors # << >>

\* ---- C23 ----
\* C23: when the call of a stage failed, or the staged stream ended before its
\* complete chunk, generateSolutionWithContext does not return code collected
\* from that stream to be evaluated and stored.
C23_FailedGenerationYieldsNoCode ==
  (/\ producer.mode = "multi"
   /\ producer.pc \in {"failed", "killed"}
   /\ consumer.pc = "returned")
    => consumer.code = << >>

\* ---- C25 ----
\* C25: once the reader of the stream has gone away, the producer enqueues no
\* further chunk and makes no further call or read of the model.
C25_CancelStopsProducer ==
  [][controller.state = "cancelled"
       => (emitted' = emitted /\ upstream'.pulls = upstream.pulls)]_vars

\* ---- C26 ----
\* the contents of the chunks of a type, in their order
ContentsOf(chunks, type) ==
  LET F[k \in 0..Len(chunks)] ==
        IF k = 0 THEN << >>
        ELSE IF chunks[k].type = type THEN Append(F[k - 1], chunks[k].content)
        ELSE F[k - 1]
  IN F[Len(chunks)]

\* the same contents, concatenated
Concatenated(chunks, type) ==
  LET F[k \in 0..Len(chunks)] ==
        IF k = 0 THEN << >>
        ELSE IF chunks[k].type = type THEN F[k - 1] \o chunks[k].content
        ELSE F[k - 1]
  IN F[Len(chunks)]

\* the code the lines of the model's stream carry, line by line
CodeOfLines(lines) ==
  LET F[k \in 0..Len(lines)] ==
        IF k = 0 THEN << >>
        ELSE IF /\ lines[k].kind = "delta"
                /\ extractCodeFromStreamContent(lines[k].content) # << >>
             THEN Append(F[k - 1], lines[k].content)
             ELSE F[k - 1]
  IN F[Len(lines)]

MalformedLine == [kind |-> "malformed", reasoning_content |-> << >>, content |-> << >>]

\* C26: a line that does not parse is skipped, by the generator reading the
\* model's stream and by the reader of the generator's stream: the stream goes
\* on, nothing is emitted or collected for the line, and the code of the lines
\* and chunks before and after it is forwarded and collected in their order.
C26_MalformedChunkIsSkipped ==
  /\ []((producer.mode = "direct" /\ controller.state \in {"readable", "closed"})
          => ContentsOf(emitted, "code") = CodeOfLines(upstream.lines))
  /\ [](/\ consumer.codeContent = Concatenated(consumer.received, "code")
        /\ consumer.reasoningContent = Concatenated(consumer.received, "reasoning")
        /\ LET parsed == Keep(consumer.received,
                              {i \in 1..Len(consumer.received) :
                                 consumer.received[i] # Malformed})
           IN /\ Len(parsed) <= Len(emitted)
              /\ \A i \in 1..Len(parsed) : parsed[i] = emitted[i])
  /\ [][(/\ producer.pc = "read"
         /\ upstream'.lines = Append(upstream.lines, MalformedLine))
          => /\ producer'.pc = "read"
             /\ producer'.streamClosed = producer.streamClosed
             /\ controller' = controller
             /\ emitted' = emitted]_vars
  /\ [][consumer'.received = Append(consumer.received, Malformed)
          => /\ consumer'.pc = "reading"
             /\ consumer'.codeContent = consumer.codeContent
             /\ consumer'.reasoningContent = consumer.reasoningContent
             /\ controller' = controller]_vars

\* the generator read a program line, a line that does not parse and another
\* program line; its reader met a line that does not parse between the two
\* code chunks and returned
C26_Witness ==
  /\ producer.mode = "direct"
  /\ Len(upstream.lines) = 3
  /\ upstream.lines[1].content = <<"class">>
  /\ upstream.lines[2] = MalformedLine
  /\ upstream.lines[3].content = <<"x">>
  /\ ContentsOf(emitted, "code") = << <<"class">>, <<"x">> >>
  /\ consumer.pc = "returned"
  /\ consumer.codeContent = <<"class", "x">>
  /\ \E i \in 2..Len(consumer.received) :
       /\ consumer.received[i] = Malformed
       /\ consumer.received[i - 1].type = "code"

\* ---- C29 ----
\* C29: the staged stream calls Analyzer, Planner, Coder and Reviewer in this
\* order, each after the one before returned; the Planner is given the
\* Analyzer's output, the Coder the Analyzer's and the Planner's, the Reviewer
\* the code extracted from the Coder's; at most one code chunk is enqueued, one
\* in a completed stream, holding that code, and what the reader collects as
\* code is that code whatever the Reviewer answered.
C29_StagesInOrderOneCodeChunk ==
  producer.mode = "multi" =>
    LET calls == upstream.calls
        returns == upstream.returns
        codes == ContentsOf(emitted, "code")
    IN /\ Len(calls) <= Len(Roles)
       /\ \A i \in 1..Len(calls) : calls[i].role = Roles[i]
       /\ Len(returns) <= Len(calls)
       /\ Len(calls) <= Len(returns) + 1
       /\ Len(calls) >= 2 => calls[2].previousAgentOutput = returns[1]
       /\ Len(calls) >= 3 =>
            calls[3].previousAgentOutput = returns[1] \o <<"nl">> \o returns[2]
       /\ Len(calls) >= 4 =>
            calls[4].previousAgentOutput = extractCodeFromResponse(returns[3])
       /\ Len(codes) <= 1
       /\ Len(codes) = 1 =>
            Len(returns) >= 3 /\ codes[1] = extractCodeFromResponse(returns[3])
       /\ (\E i \in 1..Len(emitted) : emitted[i] = CompleteChunk) => Len(codes) = 1
       /\ consumer.codeContent # << >> =>
            consumer.codeContent = extractCodeFromResponse(returns[3])

\* the four stages returned, the Reviewer with a python block of its own, and
\* the reader returned the code of the Coder's block
C29_Witness ==
  /\ producer.mode = "multi"
  /\ producer.pc = "finished"
  /\ Len(upstream.returns) = 4
  /\ Len(upstream.returns[3]) > 1
  /\ upstream.returns[4] = <<"open", "nl", "class", "fence">>
  /\ consumer.pc = "returned"
  /\ consumer.isComplete
  /\ consumer.code = <<"class">>

\* ---- C31 ----
\* the best score of the session before attempt k: the largest score among the
\* stored attempts with a lower ordinal, 0 when there is none
BestBefore(id, k) == MaxScore({a \in AttemptRows(id) : a.attempt_number < k})

\* C31: every improvement log entry records, and is classified by, the score
\* of its attempt minus the best score the session had before that attempt.
C31_LogDeltaFromRunningBest ==
  \A i \in 1..Len(improvement_logs) :
    LET entry == improvement_logs[i]
        before == BestBefore(entry.session_id, entry.to_attempt)
    IN /\ entry.old = before
       /\ entry.improvement_strategy =
            determineImprovementStrategy(entry.new - before, entry.new)

\* ---- C32 ----
\* C32: when the insert of an attempt fails, the failure is not thrown: the
\* score is still compared with the running best, the session update of that
\* attempt is still made with its ordinal and the best score, and the loop goes
\* on to the next ordinal or, after a score of 100, leaves.
C32_FailedInsertDoesNotStopAttempt ==
  [][\A p \in Procs :
       /\ (/\ pc[p] = "store"
           /\ pc'[p] # "store"
           /\ solution_attempts' = solution_attempts)
            => /\ pc'[p] \in {"log", "update"}
               /\ currentAttempt'[p] = currentAttempt[p]
               /\ bestSuccessRate'[p] =
                    Max(bestSuccessRate[p], testResults[p].success_rate)
       /\ (pc[p] = "update" /\ pc'[p] # "update")
            => /\ IF testResults[p].success_rate = 100
                  THEN pc'[p] = "solved" /\ currentAttempt'[p] = currentAttempt[p]
                  ELSE pc'[p] = "loop" /\ currentAttempt'[p] = currentAttempt[p] + 1
               /\ faults' = faults =>
                    \A r \in SessionRows(session[p].id)' :
                      /\ r.total_attempts = currentAttempt[p]
                      /\ r.best_success_rate = bestSuccessRate[p]]_vars

\* the insert of attempt 1, which scored 40, failed: nothing is stored of it,
\* the session counts it and holds its score, and the loop is at ordinal 2
C32_Witness ==
  /\ faults = 1
  /\ solution_attempts = << >>
  /\ \E p \in Procs :
       /\ pc[p] = "loop"
       /\ currentAttempt[p] = 2
       /\ bestSuccessRate[p] = 40
       /\ \E r \in SessionRows(session[p].id) :
            r.total_attempts = 1 /\ r.best_success_rate = 40

\* ---- C33 ----
\* C33: a run that returns its report after the loop leaves the stored session
\* terminal, and no ordinal of a session is stored twice (no resumed run ran
\* again an ordinal that has a stored attempt).
C33_SessionUpdateIsRetried ==
  /\ \A p \in Procs :
       (pc[p] = "done" /\ response[p].kind = "report")
         => \A r \in reinforcement_sessions : Terminal(r.status)
  /\ \A i, j \in 1..Len(solution_attempts) :
       (/\ solution_attempts[i].session_id = solution_attempts[j].session_id
        /\ solution_attempts[i].attempt_number = solution_attempts[j].attempt_number)
         => i = j

\* ---- C34 ----
\* C34: parsing a specification of tuples of numbers, sequences and quoted
\* strings returns one entry for each tuple, holding one value for each field
\* of the tuple, the value of that field.
C34_OneEntryPerTupleOneValuePerField ==
  (call.fn = "parseTestCases" /\ call.out # << >>) =>
    LET tuples == call.args[1]
        testCases == call.out[1]
    IN /\ Len(testCases) = Len(tuples)
       /\ \A i \in 1..Len(tuples) :
            /\ Len(testCases[i]) = Len(tuples[i])
            /\ \A j \in 1..Len(tuples[i]) : testCases[i][j] = parseValue(tuples[i][j])

\* ---- C35 ----
\* C35: the code that is executed for an attempt, after the two further
\* extractions, is the code that is stored with the attempt.
C35_ExecutedCodeIsStoredCode ==
  (call.fn = "attempt" /\ Len(call.out) = 3) => call.out[3] = call.out[1]

\* ---- C36 ----
\* C36: a request that resumes a stored session runs under the stored budget:
\* whatever max_attempts the request carries, the stored budget is not changed,
\* the invocation works on the stored row, every attempt it runs has an ordinal
\* within the stored budget and it leaves the loop unsolved only beyond it; a
\* request whose session_id resolves to no stored session creates a session
\* with no attempt, best score 0, in_progress and the budget of the request.
C36_ResumeKeepsStoredBudget ==
  /\ [](\A p \in Procs :
          pc[p] \in {"test", "store", "log", "update", "solved"}
            => \A r \in SessionRows(session[p].id) :
                 currentAttempt[p] <= r.max_attempts)
  /\ [][/\ \A r \in reinforcement_sessions :
             \A n \in reinforcement_sessions' :
               n.id = r.id => n.max_attempts = r.max_attempts
        /\ \A p \in Procs :
             (pc[p] = "loop" /\ pc'[p] = "respond")
               => \A r \in SessionRows(session[p].id) :
                    currentAttempt[p] > r.max_attempts
        /\ \A p \in Procs, problemId \in ProblemIds, budget \in Budgets,
              sessionId \in SessionIdInputs :
             Request(p, problemId, budget, sessionId)
               => LET found == IF sessionId = "none" THEN {}
                               ELSE SessionRows(sessionId)
                  IN IF found # {}
                     THEN /\ reinforcement_sessions' = reinforcement_sessions
                          /\ session'[p] \in found
                     ELSE /\ reinforcement_sessions' =
                               {[id |-> "s1", problem_id |-> problemId,
                                 status |-> "in_progress", best_success_rate |-> 0,
                                 total_attempts |-> 0, max_attempts |-> budget,
                                 completed_at |-> FALSE]}
                          /\ session'[p] \in reinforcement_sessions']_vars

\* a session with budget 2 and one attempt consumed has been resumed: the
\* invocation has run nothing yet and is about to run ordinal 2
C36_Witness ==
  \E p \in Procs :
    /\ pc[p] = "loop"
    /\ iterations[p] = 0
    /\ currentAttempt[p] = 2
    /\ session[p].max_attempts = 2
    /\ \E r \in reinforcement_sessions :
         r.id = session[p].id /\ r.total_attempts = 1 /\ r.max_attempts = 2


\* ---- C37 ----
\* the positions of the terminal chunks among the chunks enqueued
TerminalChunks == {i \in 1..Len(emitted) : emitted[i].type \in {"complete", "error"}}

\* C37: in direct, staged and auto mode a stream carries at most one complete
\* or error chunk, and nothing after it; it is closed at most once; no chunk is
\* enqueued once the stream is closed or an enqueue failed; a producer whose
\* stage or upstream call fails while the stream is open enqueues the error
\* chunk and closes, has enqueued no complete chunk, and calls nothing more.
C37_OneTerminalChunkOneClose ==
  /\ [](/\ Cardinality(TerminalChunks) <= 1
        /\ \A i \in TerminalChunks : i = Len(emitted)
        /\ controller.closes <= 1
        /\ producer.pc = "failed" => \A i \in TerminalChunks : emitted[i] = ErrorChunk
        /\ (\E i \in TerminalChunks : emitted[i] = CompleteChunk) => producer.pc = "finished")
  /\ [][(producer.streamClosed \/ controller.state \in {"closed", "cancelled", "errored"})
          => (emitted' = emitted /\ controller'.closes = controller.closes)]_vars
  /\ [][(producer.pc # "failed" /\ producer'.pc = "failed"
         /\ ~producer.streamClosed /\ controller.state = "readable")
          => /\ emitted' = Append(emitted, ErrorChunk)
             /\ controller'.state = "closed"
             /\ controller'.closes = 1]_vars
  /\ [][producer.pc \in {"failed", "finished"} => upstream' = upstream]_vars

\* an auto stream whose evaluation failed after the code was enqueued, and one
\* that went through the reinforcement loop and was completed
C37_Witness ==
  /\ producer.mode = "auto"
  /\ producer.pc = "failed"
  /\ Len(upstream.requests) = 2
  /\ emitted[Len(emitted)] = ErrorChunk
  /\ Len(ContentsOf(emitted, "code")) = 1
  /\ controller.closes = 1


\* ---- C38 ----
\* the requests made to a function so far
RequestsTo(to) ==
  {i \in 1..Len(upstream.requests) : upstream.requests[i].to = to}

\* the auto-mode request and the loop it started have nothing left to do
AutoSettled ==
  /\ producer.pc \in {"finished", "failed"}
  /\ pc[1] \in {"idle", "done"}

\* C38: an auto-mode request asks the reinforcement loop at most once, for a
\* new session with budget 3; the loop asks the generator for the staged
\* stream, never for auto mode; the loop enters at most 3 attempts, each with
\* one generation and at most one evaluation; the request and the loop end.
C38_AutoModeIsBounded ==
  /\ [](/\ Cardinality(RequestsTo("reinforcement-loop")) <= 1
        /\ Cardinality(RequestsTo("smart-handler")) <= 1
        /\ \A i \in RequestsTo("reinforcement-loop") :
             /\ upstream.requests[i].max_attempts = AutoBudget
             /\ upstream.requests[i].session_id = "none"
        /\ Cardinality(reinforcement_sessions) <= 1
        /\ \A row \in reinforcement_sessions : row.max_attempts = AutoBudget
        /\ \A attemptNumber \in 1..AutoBudget :
             GeneratorMode(GeneratorRequest(1, attemptNumber)) = "multi"
        /\ iterations[1] <= AutoBudget
        /\ Len(solution_attempts) <= AutoBudget
        /\ \A i \in 1..Len(solution_attempts) :
             solution_attempts[i].attempt_number \in 1..AutoBudget)
  /\ [][iterations'[1] > iterations[1]
          => GeneratorMode(GeneratorRequest(session[1].problem_id, currentAttempt[1]))
               \notin {"auto"}]_vars
  /\ <>[]AutoSettled

\* the first evaluation failed a test, the loop used its three attempts without
\* solving the problem and the stream was completed with its latest code
C38_Witness ==
  /\ producer.mode = "auto"
  /\ producer.pc = "finished"
  /\ pc[1] = "done"
  /\ Cardinality(RequestsTo("reinforcement-loop")) = 1
  /\ Len(solution_attempts) = AutoBudget
  /\ \E row \in reinforcement_sessions : row.status = "max_attempts_reached"
  /\ Len(ContentsOf(emitted, "code")) = 2


\* ---- C39 ----
\* C39: executeTests pushes one record per test case, in the order of the test
\* cases; a test case whose execution throws gets a record that is not passed,
\* with status Error, and the next test case is submitted; a record is passed
\* only for status Accepted with an output equal to the expected one; in the
\* report total_tests = passed_tests + failed_tests = the number of test cases.
C39_OneRecordPerTestCase ==
  /\ [](/\ Len(evaluator.results) =
             IF evaluator.pc = "done" THEN evaluator.testCases ELSE evaluator.index - 1
        /\ \A i \in 1..Len(evaluator.results) :
             /\ evaluator.results[i].passed => evaluator.results[i].status = "Accepted"
             /\ evaluator.results[i].status = "Error" => ~evaluator.results[i].passed
        /\ evaluator.pc = "done" =>
             LET report == executeTests(evaluator.results)
             IN /\ report.total_tests = evaluator.testCases
                /\ report.total_tests = report.passed_tests + report.failed_tests
                /\ report.passed_tests =
                     Cardinality({i \in 1..Len(evaluator.results) :
                                    evaluator.results[i].passed})
                /\ report.test_results = evaluator.results)
  /\ [][\/ evaluator'.results = evaluator.results
        \/ /\ Len(evaluator'.results) = evaluator.index
           /\ SubSeq(evaluator'.results, 1, Len(evaluator.results)) = evaluator.results
           /\ evaluator'.index = evaluator.index + 1
           /\ evaluator'.pc = IF evaluator.index < evaluator.testCases
                              THEN "submit" ELSE "done"]_vars
  /\ [][(SubmitThrows \/ PollThrows \/ PollReturnsNoOutput)
          => evaluator'.results = Append(evaluator.results, ErrorResult)]_vars
  /\ [][\A id \in StatusIds, outputEqual \in BOOLEAN :
          (PollReturns(id, outputEqual) /\ evaluator'.results # evaluator.results)
            => evaluator'.results[evaluator.index].passed = (id = 3 /\ outputEqual)]_vars

\* of two test cases the first threw and the second was accepted with the
\* expected output
C39_Witness ==
  /\ evaluator.pc = "done"
  /\ evaluator.testCases = 2
  /\ evaluator.results = <<ErrorResult, [passed |-> TRUE, status |-> "Accepted"]>>
  /\ executeTests(evaluator.results).failed_tests = 1


\* ---- C40 ----
\* C40: whatever the interleaving of the invocations on a session, no write
\* lowers the stored best_success_rate or the stored total_attempts of the
\* session, and none replaces the stored status solved by another status.
C40_NoLostUpdate ==
  [][\A old \in reinforcement_sessions : \A new \in reinforcement_sessions' :
       new.id = old.id =>
         /\ new.best_success_rate >= old.best_success_rate
         /\ new.total_attempts >= old.total_attempts
         /\ old.status = "solved" => new.status = "solved"]_vars

=============================================================================
